---- MODULE Spec2Model ----
(***************************************************************************)
(* Model of the Renode external-control client (tunmaker/foulabean):       *)
(*   - the frame engine ExternalControlClient::Impl::send_command /        *)
(*     recv_response (renodeAPI/src/renodeInterface.cpp),                  *)
(*   - the operations built on it (renodeAPI/src/renodeMachine.cpp),       *)
(*   - the event registry (renodeAPI/src/renodeInternal.h),                *)
(*   - the event pump RenodeEventDispatcher (main/src).                    *)
(* The control socket is modelled byte by byte: `inflight` are the bytes    *)
(* the server has written that are still on their way, `sockBuf` the bytes *)
(* waiting in the client's socket buffer.                                  *)
(***************************************************************************)
EXTENDS Integers, Sequences, FiniteSets, TLC

(***************************************************************************)
(* Wire constants                                                          *)
(***************************************************************************)
COMMAND_FAILED == 0
FATAL_ERROR == 1
INVALID_COMMAND == 2
SUCCESS_WITH_DATA == 3
SUCCESS_WITHOUT_DATA == 4
OK_HANDSHAKE == 5
ASYNC_EVENT == 6

RUN_FOR == 1
GET_TIME == 2
GET_MACHINE == 3
ADC == 4
GPIO == 5
SYSTEM_BUS == 6

\* GpioSubcommand
GPIO_REGISTER_EVENT == 2

\* received_command before any echoed command byte has been read
NoEcho == 255

\* bytes before the payload of an ASYNC_EVENT frame
kMinEventHeader == 10

(***************************************************************************)
(* Bounds of the model                                                     *)
(***************************************************************************)
\* event frames the server sends in one run
MaxEvents == 2
\* response frames the server sends in one run
MaxResponses == 2
\* operations the client starts in one run
MaxOps == 2
\* calls of disconnect() in one run
MaxDisconnects == 2

(***************************************************************************)
(* Byte codec                                                              *)
(***************************************************************************)
write_u32_le(n) ==
  << n % 256, (n \div 256) % 256, (n \div 65536) % 256, (n \div 16777216) % 256 >>

write_u16_le(n) == << n % 256, (n \div 256) % 256 >>

read_u32_le(b) ==
  b[1] + 256 * b[2] + 65536 * b[3] + 16777216 * b[4]

\* the four bytes read as an int32_t (memcpy, or static_cast<int32_t> of read_u32_le)
read_i32_le(b) ==
  b[1] + 256 * b[2] + 65536 * b[3]
    + 16777216 * (IF b[4] >= 128 THEN b[4] - 256 ELSE b[4])

Zeros(n) == [i \in 1..n |-> 0]

\* two's complement: the low 31 bits of v, and the sign in the top bit
write_i32_le(v) ==
  IF v >= 0 THEN write_u32_le(v)
  ELSE LET u == (v + 2147483647) + 1 IN
       << u % 256, (u \div 256) % 256, (u \div 65536) % 256, (u \div 16777216) + 128 >>

\* the values written in this model are below 2^31: the high word is zero
write_u64_le(n) == write_u32_le(n) \o Zeros(4)

Min(a, b) == IF a < b THEN a ELSE b

(***************************************************************************)
(* State                                                                   *)
(***************************************************************************)
VARIABLES
  \* ExternalControlClient::Impl
  sock_fd,            \* socket descriptor, -1 when closed
  connected,          \* connected flag
  mtx,                \* owner of Impl::mtx: "free" or "worker"
  \* the control connection
  sockBuf,            \* bytes waiting in the client's socket buffer
  inflight,           \* bytes the server has written that have not arrived yet
  peerClosed,         \* the server has closed the connection
  wire,               \* the request written by the exchange in progress
  \* the worker thread: position inside send_command / recv_response
  pc,                 \* "idle", the read recv_response is blocked on, or "returned"
  op,                 \* operation in progress
  expected_command,
  return_code,
  received_command,
  event_ed,
  size,               \* data_size / event_size of the frame being read
  ret,                \* what the operation returns, while pc = "returned"
  \* EventCallbackRegistry
  callbacks_,         \* descriptors that have a callback
  nextId_,
  \* peripherals and machine facade of the session
  descriptor,         \* AMachine::Impl::descriptor
  instanceId,         \* Gpio::Impl::instanceId
  gpioCallbacks,      \* number of entries of Gpio::Impl::callbacks
  handleToServerEd,   \* Gpio::Impl::handleToServerEd, a set of << handle, ed >>
  nextCbHandle,       \* Gpio::Impl::nextCbHandle
  issued,             \* the descriptors registerCallback has returned, in order
  hasMachine,         \* the caller holds a machine facade
  holders,            \* shared_ptr copies of the facade the callers hold
  facade,             \* identity of the facade machines[name] points to, 0: none alive
  made,               \* facades constructed so far
  hasGpio,            \* the caller holds a Gpio
  handshaken,         \* performHandshake has returned true on this connection
  workerQ,            \* commands posted to the worker thread, not yet started
  uiQ,                \* result events posted to the UI thread, not yet handled
  wPc,                \* the slot the worker is in, "idle" between slots
  wCmd,               \* the command whose slot the worker is in
  m_connecting,       \* SimulationController::m_connecting
  m_connected,        \* SimulationController::m_connected
  m_client,           \* RenodeWorker::m_client is non-null
  m_gpioCallbackHandles, \* RenodeWorker: the callback handles kept for the GPIO port
  nPosted,            \* commands posted so far; a command is named by its number
  lastStarted,        \* the number of the command the worker started last
  connectsEnded,      \* doConnect slots that are over
  connEvents,         \* connected and connectionFailed events emitted
  monPc,              \* Monitor::execute: "idle", "read" (in readUntilPrompt), "returned"
  monIn,              \* bytes on the monitor socket, not yet received
  result,             \* readUntilPrompt: the bytes accumulated
  monEof,             \* the monitor's peer has closed the connection
  monRet,             \* what execute returned
  nMonChunks,         \* chunks written by the monitor server
  \* Monitor
  monitor_fd,         \* Monitor::Impl::sock_fd, the monitor's own connection
  monWire,            \* command lines the operation in progress wrote to it
  \* RenodeEventDispatcher
  installed,          \* a dispatcher with its QSocketNotifier exists on m_fd
  m_fd,
  \* history
  unread,             \* the frames the server has written that are not yet consumed whole
  headDone,           \* bytes of Head(unread) already consumed
  headBy,             \* who consumed them: "pump", "recv", or "none"
  split,              \* some frame had bytes consumed by both readers
  seen,               \* frames consumed whole by the exchange in progress
  invoked,            \* invokeCallback calls of the exchange in progress, or of the
                      \* last pump activation: [ed, data, by, found]
  desynced,           \* an earlier exchange ended in a command mismatch
  pumpLeft,           \* bytes the last pump activation left in the socket buffer,
                      \* -1 once an operation has started since
  nDisconnect,        \* calls of disconnect()
  nClose,             \* calls of close() on the control socket
  nOps,               \* operations started
  nEvents,            \* event frames written by the server
  nResponses          \* response frames written by the server

vars == << sock_fd, connected, mtx, sockBuf, inflight, peerClosed, wire,
           pc, op, expected_command, return_code, received_command, event_ed,
           size, ret, callbacks_, nextId_, descriptor, instanceId, gpioCallbacks,
           handleToServerEd, nextCbHandle, issued,
           hasMachine, holders, facade, made, hasGpio, handshaken,
           workerQ, uiQ, wPc, wCmd, m_connecting, m_connected, m_client, nPosted,
           lastStarted, connectsEnded, connEvents, m_gpioCallbackHandles,
           monPc, monIn, result, monEof, monRet, nMonChunks,
           monitor_fd, monWire, installed, m_fd, unread, headDone, headBy, split, seen, invoked,
           desynced, pumpLeft, nDisconnect, nClose, nOps, nEvents, nResponses >>

clientVars == << sock_fd, connected >>
uiVars == << workerQ, uiQ, wPc, wCmd, m_connecting, m_connected, m_client, nPosted,
             lastStarted, connectsEnded, connEvents >>
appVars == << uiVars, m_gpioCallbackHandles >>
monReadVars == << monPc, monIn, result, monEof, monRet, nMonChunks >>
\* the application's threads and the monitor's reader
sideVars == << appVars, monReadVars >>
localVars == << expected_command, return_code, received_command, event_ed, size >>
registryVars == << callbacks_, nextId_, issued >>
monitorVars == << monitor_fd, monWire >>
sessionVars == << descriptor, instanceId, gpioCallbacks, handleToServerEd, nextCbHandle,
                 hasMachine, holders, facade, made, hasGpio >>
pumpVars == << installed, m_fd >>
readVars == << sockBuf, unread, headDone, headBy, split, seen >>
countVars == << nOps, nEvents, nResponses >>
closeVars == << nDisconnect, nClose >>

(***************************************************************************)
(* Frames as the server writes them (the wire format)                      *)
(***************************************************************************)
\* return codes followed by an echoed command byte
EchoCodes == {COMMAND_FAILED, INVALID_COMMAND, SUCCESS_WITH_DATA, SUCCESS_WITHOUT_DATA}
\* return codes followed by a 4-byte size and that many bytes
DataCodes == {COMMAND_FAILED, FATAL_ERROR, SUCCESS_WITH_DATA}

EventFrame(ed, data) ==
  [code |-> ASYNC_EVENT, cmd |-> GPIO, ed |-> ed, data |-> data]

ResponseFrame(code, echo, data) ==
  [code |-> code, cmd |-> echo, ed |-> 0, data |-> data]

Encode(f) ==
  IF f.code = ASYNC_EVENT
  THEN << ASYNC_EVENT, f.cmd >> \o write_u32_le(f.ed) \o write_u32_le(Len(f.data)) \o f.data
  ELSE << f.code >>
       \o (IF f.code \in EchoCodes THEN << f.cmd >> ELSE << >>)
       \o (IF f.code \in DataCodes THEN write_u32_le(Len(f.data)) \o f.data ELSE << >>)

FrameLen(f) == Len(Encode(f))

(***************************************************************************)
(* Initial state: the session after a successful connect, handshake,       *)
(* getMachine and GPIO registration (one state-change callback registered, *)
(* as RenodeWorker::registerGpioCallbacks does), the worker idle.          *)
(***************************************************************************)
NoRet == [op |-> "none", err |-> 0, kind |-> "none", rc |-> -1, payload |-> << >>,
          sent |-> FALSE, eof |-> FALSE, cmd |-> 0, fired |-> 0, mismatch |-> FALSE,
          afterDesync |-> FALSE, raised |-> FALSE, null |-> TRUE, id |-> -1, obj |-> 0]

\* no command is posted, no event is pending, the worker is between slots
InitApp(client, conn) ==
  /\ workerQ = << >>
  /\ uiQ = << >>
  /\ wPc = "idle"
  /\ wCmd = [id |-> 0, name |-> "none"]
  /\ m_connecting = FALSE
  /\ m_connected = conn
  /\ m_client = client
  /\ nPosted = 0
  /\ lastStarted = 0
  /\ connectsEnded = 0
  /\ connEvents = 0

\* unreadAtCall: the bytes that were waiting on the socket when the call began
NoMonRet ==
  [op |-> "none", err |-> 0, output |-> << >>, raw |-> << >>, prompt |-> FALSE,
   eof |-> FALSE, unreadAtCall |-> 0]

\* no monitor command is being executed
InitMonitor ==
  /\ monPc = "idle"
  /\ monIn = << >>
  /\ result = << >>
  /\ monEof = FALSE
  /\ monRet = NoMonRet
  /\ nMonChunks = 0

\* a session with its machine; with gpio, the caller also holds a Gpio with
\* one registered callback, whose handle it has kept
InitSessionWith(id, gpio) ==
  /\ InitApp(TRUE, TRUE)
  /\ InitMonitor
  /\ m_gpioCallbackHandles = IF gpio THEN {1} ELSE {}
  /\ sock_fd = 3
  /\ connected = TRUE
  /\ mtx = "free"
  /\ sockBuf = << >>
  /\ inflight = << >>
  /\ peerClosed = FALSE
  /\ wire = << >>
  /\ pc = "idle"
  /\ op = "none"
  /\ expected_command = 0
  /\ return_code = 0
  /\ received_command = NoEcho
  /\ event_ed = 0
  /\ size = 0
  /\ ret = NoRet
  /\ callbacks_ = IF gpio THEN {0} ELSE {}
  /\ nextId_ = IF gpio THEN 1 ELSE 0
  /\ descriptor = 0
  /\ instanceId = id
  /\ gpioCallbacks = IF gpio THEN 1 ELSE 0
  /\ handleToServerEd = IF gpio THEN { << 1, 0 >> } ELSE {}
  /\ nextCbHandle = IF gpio THEN 2 ELSE 1
  /\ issued = IF gpio THEN << 0 >> ELSE << >>
  /\ hasMachine = TRUE
  /\ holders = 1
  /\ facade = 1
  /\ made = 1
  /\ hasGpio = gpio
  /\ handshaken = TRUE
  /\ monitor_fd = 4
  /\ monWire = << >>
  /\ installed = FALSE
  /\ m_fd = -1
  /\ unread = << >>
  /\ headDone = 0
  /\ headBy = "none"
  /\ split = FALSE
  /\ seen = << >>
  /\ invoked = << >>
  /\ desynced = FALSE
  /\ pumpLeft = -1
  /\ nDisconnect = 0
  /\ nClose = 0
  /\ nOps = 0
  /\ nEvents = 0
  /\ nResponses = 0

InitSession(id) == InitSessionWith(id, TRUE)

Init == InitSession(0)

\* the worker after doConnect: a client and a machine, no peripheral yet
InitWorker == InitSessionWith(-1, FALSE)

\* no handshake has been made, no machine or peripheral has been asked for and
\* the monitor is not connected; right after connect() the socket fd is open
InitNoMachine(fd) ==
  /\ InitApp(fd >= 0, FALSE)
  /\ InitMonitor
  /\ m_gpioCallbackHandles = {}
  /\ sock_fd = fd
  /\ connected = (fd >= 0)
  /\ mtx = "free"
  /\ sockBuf = << >>
  /\ inflight = << >>
  /\ peerClosed = FALSE
  /\ wire = << >>
  /\ pc = "idle"
  /\ op = "none"
  /\ expected_command = 0
  /\ return_code = 0
  /\ received_command = NoEcho
  /\ event_ed = 0
  /\ size = 0
  /\ ret = NoRet
  /\ callbacks_ = {}
  /\ nextId_ = 0
  /\ descriptor = -1
  /\ instanceId = -1
  /\ gpioCallbacks = 0
  /\ handleToServerEd = {}
  /\ nextCbHandle = 1
  /\ issued = << >>
  /\ hasMachine = FALSE
  /\ holders = 0
  /\ facade = 0
  /\ made = 0
  /\ hasGpio = FALSE
  /\ handshaken = FALSE
  /\ monitor_fd = -1
  /\ monWire = << >>
  /\ installed = FALSE
  /\ m_fd = -1
  /\ unread = << >>
  /\ headDone = 0
  /\ headBy = "none"
  /\ split = FALSE
  /\ seen = << >>
  /\ invoked = << >>
  /\ desynced = FALSE
  /\ pumpLeft = -1
  /\ nDisconnect = 0
  /\ nClose = 0
  /\ nOps = 0
  /\ nEvents = 0
  /\ nResponses = 0

InitConnected == InitNoMachine(3)

\* the application after start: the worker has no client yet
InitApplication == InitNoMachine(-1)

\* the same session with a Gpio that carries the instanceId its Impl starts
\* with, -1: no registration has given it one
InitUnregistered == InitSession(-1)

(***************************************************************************)
(* The server and the network                                              *)
(***************************************************************************)
\* a command byte other than c
OtherCommand(c) == IF c = GPIO THEN RUN_FOR ELSE GPIO

EventChoices == { EventFrame(0, << >>), EventFrame(1, << 1, 2 >>) }

\* the payload of a successful answer to command c: a time for GET_TIME, a
\* descriptor for GET_MACHINE
AnswerData(c) == IF c = GET_TIME THEN << 1, 0, 0, 0, 0, 0, 0, 0 >> ELSE << 7, 0, 0, 0 >>

\* the answer of a server that does not know the machine or the peripheral: -1
NotFound == << 255, 255, 255, 255 >>

\* the replies of a server to a handshake: the single byte OK_HANDSHAKE, or a
\* refusal
HandshakeReplies ==
  { ResponseFrame(OK_HANDSHAKE, NoEcho, << >>),
    ResponseFrame(INVALID_COMMAND, 0, << >>) }

\* the responses a server may give to a request with command byte c
ResponseChoices(c) ==
  { ResponseFrame(SUCCESS_WITH_DATA, c, AnswerData(c)),
    ResponseFrame(SUCCESS_WITH_DATA, OtherCommand(c), AnswerData(c)),
    ResponseFrame(SUCCESS_WITHOUT_DATA, c, << >>),
    ResponseFrame(COMMAND_FAILED, c, << 69 >>),
    ResponseFrame(FATAL_ERROR, NoEcho, << 69 >>),
    ResponseFrame(INVALID_COMMAND, c, << >>),
    ResponseFrame(OK_HANDSHAKE, NoEcho, << >>) }

\* a request for a machine or for the registration of a peripheral may also be
\* answered "not found"
NotFoundChoices ==
  IF op \in {"getMachine", "getGpio", "getAdc", "getSysBus"}
  THEN { ResponseFrame(SUCCESS_WITH_DATA, expected_command, NotFound) }
  ELSE {}

\* the server writes a frame once its previous one has been delivered whole;
\* the first byte reaches the client at once
ServerWrite(f) ==
  /\ ~peerClosed
  /\ sock_fd >= 0
  /\ inflight = << >>
  /\ sockBuf' = Append(sockBuf, Head(Encode(f)))
  /\ inflight' = Tail(Encode(f))
  /\ unread' = Append(unread, f)
  /\ UNCHANGED << clientVars, mtx, peerClosed, wire, pc, op, localVars, ret,
                  registryVars, monitorVars, closeVars, handshaken, sideVars, sessionVars, pumpVars, headDone, headBy, split, seen,
                  invoked, desynced, pumpLeft, nOps >>

\* events are written at any time
ServerSendEvent ==
  /\ nEvents < MaxEvents
  /\ nEvents' = nEvents + 1
  /\ UNCHANGED nResponses
  /\ \E f \in EventChoices : ServerWrite(f)

\* a response is on the connection, or has been read by the exchange in progress
Answered ==
  \/ \E i \in 1..Len(unread) : unread[i].code # ASYNC_EVENT
  \/ \E i \in 1..Len(seen) : seen[i].code # ASYNC_EVENT

\* a response is written to a client that waits for one; a server may also
\* write one nobody asked for
ServerSendResponse ==
  /\ nResponses < MaxResponses
  /\ ~Answered
  /\ nResponses' = nResponses + 1
  /\ UNCHANGED nEvents
  /\ IF pc \in {"idle", "returned"}
     THEN ServerWrite(ResponseFrame(SUCCESS_WITHOUT_DATA, RUN_FOR, << >>))
     ELSE IF pc = "hs"
     THEN \E f \in HandshakeReplies : ServerWrite(f)
     ELSE \E f \in ResponseChoices(expected_command) \cup NotFoundChoices : ServerWrite(f)

\* the network delivers a frame in segments that end at the field boundaries of
\* the frame or after the first byte of its payload: the lengths of the prefixes
\* of f the client can find delivered
Cuts(f) ==
  IF f.code = ASYNC_EVENT
  THEN {1, 2, 6, kMinEventHeader, FrameLen(f)}
       \cup (IF Len(f.data) > 1 THEN {kMinEventHeader + 1} ELSE {})
  ELSE {1, FrameLen(f)}
       \cup (IF f.code \in EchoCodes THEN {2} ELSE {})
       \cup (IF f.code \in DataCodes THEN {FrameLen(f) - Len(f.data)} ELSE {})

\* the next segment of the frame in flight reaches the client's socket buffer
Deliver ==
  /\ ~peerClosed
  /\ sock_fd >= 0
  /\ inflight # << >>
  /\ LET f == unread[Len(unread)]
         at == FrameLen(f) - Len(inflight)
         to == CHOOSE c \in Cuts(f) : c > at /\ \A d \in Cuts(f) : d > at => c <= d
     IN /\ sockBuf' = sockBuf \o SubSeq(inflight, 1, to - at)
        /\ inflight' = SubSeq(inflight, to - at + 1, Len(inflight))
  /\ UNCHANGED << clientVars, mtx, peerClosed, wire, pc, op, localVars, ret,
                  registryVars, monitorVars, closeVars, handshaken, sideVars, sessionVars, pumpVars, unread, headDone, headBy, split,
                  seen, invoked, desynced, pumpLeft, countVars >>

\* the server closes the connection; bytes not yet delivered are lost
ServerClose ==
  /\ ~peerClosed
  /\ sock_fd >= 0
  /\ peerClosed' = TRUE
  /\ inflight' = << >>
  /\ UNCHANGED << clientVars, mtx, sockBuf, wire, pc, op, localVars, ret,
                  registryVars, monitorVars, closeVars, handshaken, sideVars, sessionVars, pumpVars, unread, headDone, headBy, split,
                  seen, invoked, desynced, pumpLeft, countVars >>

(***************************************************************************)
(* Socket helpers                                                          *)
(***************************************************************************)
\* bytes waiting in the client's socket buffer
Buffered == Len(sockBuf)

\* read_all(fd, buf, n) blocks until n bytes have been read or the stream ends
ReadAllReturns(n) == Buffered >= n \/ peerClosed
ReadAllOk(n) == Buffered >= n
\* the bytes a successful read_all(n) stores
ReadAllBytes(n) == SubSeq(sockBuf, 1, n)

\* write_all on a connection the peer has closed may still succeed or fail
WriteAllOutcomes == IF peerClosed THEN {TRUE, FALSE} ELSE {TRUE}

\* the frames left unread, and the bytes consumed of the first of them, once n
\* more bytes are consumed; `popped` are the frames consumed whole on the way
RECURSIVE Advance(_, _, _)
Advance(q, done, n) ==
  IF n = 0 \/ q = << >> THEN [q |-> q, done |-> done, popped |-> << >>]
  ELSE LET left == FrameLen(Head(q)) - done IN
       IF n < left THEN [q |-> q, done |-> done + n, popped |-> << >>]
       ELSE LET r == Advance(Tail(q), 0, n - left) IN
            [q |-> r.q, done |-> r.done, popped |-> << Head(q) >> \o r.popped]

\* the reader `who` consumes n bytes of the socket buffer
Took(n, who) ==
  LET r == Advance(unread, headDone, n) IN
  /\ sockBuf' = SubSeq(sockBuf, n + 1, Len(sockBuf))
  /\ unread' = r.q
  /\ headDone' = r.done
  /\ headBy' = IF n = 0 THEN headBy ELSE IF r.done > 0 THEN who ELSE "none"
  /\ split' = (split \/ (n > 0 /\ headDone > 0 /\ headBy # who))
  /\ seen' = IF who = "recv" THEN seen \o r.popped ELSE seen

(***************************************************************************)
(* EventCallbackRegistry                                                   *)
(***************************************************************************)
\* variant: the call is recorded ahead of the earlier ones
invokeCallbackOutOfOrder(ed, data, by) ==
  invoked' = << [ed |-> ed, data |-> data, by |-> by, found |-> ed \in callbacks_] >>
             \o invoked

\* variant: a callback is called whether or not the descriptor has one
invokeCallbackAlwaysFound(ed, data, by) ==
  invoked' = Append(invoked, [ed |-> ed, data |-> data, by |-> by, found |-> TRUE])

\* invokeCallback(ed, data, size): calls the callback of ed if there is one
invokeCallback(ed, data, by) ==
  invoked' = Append(invoked, [ed |-> ed, data |-> data, by |-> by,
                              found |-> ed \in callbacks_])

(***************************************************************************)
(* Operations built on send_command: how each maps the outcome of the      *)
(* exchange (a returned payload, or an exception) to its Error code        *)
(***************************************************************************)
Ops == {"runFor", "getTime", "setState", "getMachine", "getGpio", "getAdc", "getSysBus",
        "registerStateChangeCallback"}

\* the operations that register a peripheral
Registrations == {"getGpio", "getAdc", "getSysBus"}

OpCommand(o) ==
  CASE o = "runFor" -> RUN_FOR
    [] o = "getTime" -> GET_TIME
    [] o = "setState" -> GPIO
    [] o = "getMachine" -> GET_MACHINE
    [] o = "getGpio" -> GPIO
    [] o = "getAdc" -> ADC
    [] o = "getSysBus" -> SYSTEM_BUS
    [] o = "registerStateChangeCallback" -> GPIO

\* write_string: 4-byte length, then the bytes
write_string(str) == write_u32_le(Len(str)) \o str

\* the paths of the peripherals the session registers ("g", "ad", "")
GpioPath == << 103 >>
AdcPath == << 97, 100 >>
SysBusPath == << >>

\* variant: the registration leaves the marker out
RegistrationPayloadNoMarker(path) == write_i32_le(descriptor) \o write_string(path)

\* the registration request: -1, the machine descriptor, the path
RegistrationPayload(path) ==
  write_i32_le(-1) \o write_i32_le(descriptor) \o write_string(path)

\* the request payload each operation builds
OpPayload(o) ==
  CASE o = "runFor" -> write_u64_le(100 * 1000)
    [] o = "getTime" -> Zeros(8)
    [] o = "setState" -> write_i32_le(instanceId) \o << 1 >> \o write_i32_le(3) \o << 1 >>
    [] o = "getMachine" -> write_u32_le(1) \o << 109 >>
    [] o = "getGpio" -> RegistrationPayload(GpioPath)
    [] o = "getAdc" -> RegistrationPayload(AdcPath)
    [] o = "getSysBus" -> RegistrationPayload(SysBusPath)
    [] o = "registerStateChangeCallback" ->
         write_i32_le(instanceId) \o << GPIO_REGISTER_EVENT >> \o write_i32_le(0)
           \o write_u32_le(nextId_)

\* 'R','E', command, 4-byte LE payload length, payload
Request(cmdId, p) == << 82, 69, cmdId >> \o write_u32_le(Len(p)) \o p

\* outcome kinds: "ok" (send_command returned p), "throw" (it raised),
\* "guard" (the operation returned before sending anything)
runForError(kind, p) == IF kind = "throw" THEN 3 ELSE 0

getTimeError(kind, p) ==
  IF kind = "throw" THEN 4
  ELSE IF Len(p) # 8 THEN 3
  ELSE 0

setStateError(kind, p) ==
  IF kind = "guard" THEN 2
  ELSE IF kind = "throw" THEN 5
  ELSE 0

\* variant: the descriptor received is not looked at
getMachineErrorSizeOnly(kind, p) ==
  IF kind = "guard" THEN 1
  ELSE IF kind = "throw" THEN 2
  ELSE IF Len(p) # 4 THEN 3
  ELSE 0

getMachineError(kind, p) ==
  IF kind = "guard" THEN 1
  ELSE IF kind = "throw" THEN 2
  ELSE IF Len(p) # 4 THEN 3
  ELSE IF read_i32_le(p) < 0 THEN 4
  ELSE 0

getGpioError(kind, p) ==
  IF kind = "throw" THEN 4
  ELSE IF Len(p) # 4 THEN 2
  ELSE IF read_i32_le(p) < 0 THEN 3
  ELSE 0

getAdcError(kind, p) ==
  IF kind = "throw" THEN 4
  ELSE IF Len(p) # 4 THEN 2
  ELSE IF read_i32_le(p) < 0 THEN 3
  ELSE 0

getSysBusError(kind, p) ==
  IF kind = "throw" THEN 4
  ELSE IF Len(p) # 4 THEN 2
  ELSE IF read_i32_le(p) < 0 THEN 3
  ELSE 0

registerStateChangeCallbackError(kind, p) ==
  IF kind = "guard" THEN 2
  ELSE IF kind = "throw" THEN 4
  ELSE 0

OpError(o, kind, p) ==
  CASE o = "runFor" -> runForError(kind, p)
    [] o = "getTime" -> getTimeError(kind, p)
    [] o = "setState" -> setStateError(kind, p)
    [] o = "getMachine" -> getMachineError(kind, p)
    [] o = "getGpio" -> getGpioError(kind, p)
    [] o = "getAdc" -> getAdcError(kind, p)
    [] o = "getSysBus" -> getSysBusError(kind, p)
    [] o = "registerStateChangeCallback" -> registerStateChangeCallbackError(kind, p)

\* Gpio::setState calls every local callback once the exchange has returned
setStateFires(kind) == IF kind = "ok" THEN gpioCallbacks ELSE 0

\* getMachine and getGpio return an object exactly when they report no error
ReturnsObject(o, kind, p) ==
  o \in {"getMachine"} \cup Registrations /\ OpError(o, kind, p) = 0

\* the descriptor of the facade getMachine returns: that of the cached facade
\* of this name while the caller holds it, else the one received
MachineDescriptor(p) == IF hasMachine THEN descriptor ELSE read_i32_le(p)

\* the descriptor or instanceId the returned object carries
ReturnedId(o, p) == IF o = "getMachine" THEN MachineDescriptor(p) ELSE read_i32_le(p)

\* variant: every successful getMachine constructs a facade
ReturnedFacadeAlwaysNew == made + 1

\* machines[name].lock(): the cached facade while a holder keeps it alive,
\* else a new one
ReturnedFacade == IF hasMachine THEN facade ELSE made + 1

\* the objects the caller holds once the operation has returned
Stores(o, kind, p) ==
  IF ReturnsObject(o, kind, p) /\ o = "getMachine"
  THEN /\ descriptor' = MachineDescriptor(p)
       /\ hasMachine' = TRUE
       /\ holders' = holders + 1
       /\ facade' = ReturnedFacade
       /\ made' = IF ReturnedFacade > made THEN made + 1 ELSE made
       /\ UNCHANGED << instanceId, gpioCallbacks, handleToServerEd, nextCbHandle, hasGpio >>
  ELSE IF ReturnsObject(o, kind, p) /\ o = "getGpio"
  THEN /\ instanceId' = read_i32_le(p)
       /\ gpioCallbacks' = 0
       /\ handleToServerEd' = {}
       /\ nextCbHandle' = 1
       /\ hasGpio' = TRUE
       /\ UNCHANGED << descriptor, hasMachine, holders, facade, made >>
  ELSE IF o = "registerStateChangeCallback" /\ kind # "guard"
  THEN \* the handle is taken before the request is built; the mappings are
       \* stored only when send_command has returned
       /\ nextCbHandle' = nextCbHandle + 1
       /\ gpioCallbacks' = IF kind = "ok" THEN gpioCallbacks + 1 ELSE gpioCallbacks
       /\ handleToServerEd' =
            IF kind = "ok"
            THEN handleToServerEd \cup { << nextCbHandle, issued[Len(issued)] >> }
            ELSE handleToServerEd
       /\ UNCHANGED << descriptor, instanceId, hasMachine, holders, facade, made, hasGpio >>
  ELSE UNCHANGED sessionVars

\* the operation o returns to its caller
Finish(o, kind, p, rc, sent, eof, mismatch) ==
  /\ ret' = [op |-> o, err |-> OpError(o, kind, p), kind |-> kind, rc |-> rc,
             payload |-> p, sent |-> sent, eof |-> eof, cmd |-> OpCommand(o),
             fired |-> IF o = "setState" THEN setStateFires(kind) ELSE 0,
             mismatch |-> mismatch, afterDesync |-> desynced, raised |-> FALSE,
             null |-> ~ReturnsObject(o, kind, p),
             id |-> IF ReturnsObject(o, kind, p) THEN ReturnedId(o, p)
                    ELSE IF o = "registerStateChangeCallback" /\ kind = "ok"
                    THEN nextCbHandle ELSE -1,
             obj |-> IF ReturnsObject(o, kind, p) /\ o = "getMachine"
                     THEN ReturnedFacade ELSE 0]
  /\ Stores(o, kind, p)
  /\ pc' = "returned"
  /\ op' = "none"
  /\ mtx' = IF o = "getMachine" THEN "free" ELSE mtx
  /\ expected_command' = 0
  /\ return_code' = 0
  /\ received_command' = NoEcho
  /\ event_ed' = 0
  /\ size' = 0
  /\ desynced' = (desynced \/ mismatch)

\* recv_response goes on to its next read
Goto(next, rc, rcmd, ed, sz) ==
  /\ pc' = next
  /\ return_code' = rc
  /\ received_command' = rcmd
  /\ event_ed' = ed
  /\ size' = sz
  /\ UNCHANGED << op, expected_command, mtx, ret, desynced, sessionVars >>

(***************************************************************************)
(* send_command: the guards of the operation, then header and payload      *)
(***************************************************************************)
\* variant: the peripheral does not look at its instanceId
GuardFailsConnectedOnly(o) == o = "getMachine" /\ ~connected

\* the check an operation makes before it builds its request
GuardFails(o) ==
  CASE o = "getMachine" -> ~connected
    [] o = "setState" -> instanceId < 0
    [] o = "registerStateChangeCallback" -> instanceId < 0
    [] OTHER -> FALSE

\* does the operation take Impl::mtx for the duration of the call
LocksMutex(o) == o = "getMachine"

\* the object the operation is a member of exists
OpAvailable(o) ==
  CASE o = "getMachine" -> TRUE
    [] o \in {"setState", "registerStateChangeCallback"} -> hasGpio
    [] OTHER -> hasMachine

\* variant: the registry hands out the lowest descriptor that is free
registerCallbackLowestFree ==
  LET ed == CHOOSE e \in 0..nextId_ : e \notin callbacks_ /\ \A f \in 0..(e - 1) : f \in callbacks_
  IN  /\ callbacks_' = callbacks_ \cup {ed}
      /\ nextId_' = nextId_ + 1
      /\ issued' = Append(issued, ed)

\* registerCallback: ed = nextId_++; callbacks_[ed] = cb
registerCallback ==
  /\ callbacks_' = callbacks_ \cup {nextId_}
  /\ nextId_' = nextId_ + 1
  /\ issued' = Append(issued, nextId_)

\* the callback is put into the registry before the request is sent
Registers(o) ==
  IF o = "registerStateChangeCallback" /\ ~GuardFails(o)
  THEN registerCallback
  ELSE UNCHANGED registryVars

\* an operation built on send_command, with the request payload it has built
StartOpWith(o, payload) ==
  /\ pc = "idle"
  /\ OpAvailable(o)
  /\ nOps < MaxOps
  /\ nOps' = nOps + 1
  /\ seen' = << >>
  /\ invoked' = << >>
  /\ pumpLeft' = -1
  /\ UNCHANGED << clientVars, sockBuf, inflight, peerClosed, unread, headDone, headBy,
                  split, monitorVars, closeVars, handshaken, sideVars, pumpVars, nEvents, nResponses >>
  /\ Registers(o)
  /\ IF GuardFails(o)
     THEN /\ Finish(o, "guard", << >>, -1, FALSE, FALSE, FALSE)
          /\ UNCHANGED wire
     ELSE IF sock_fd < 0
     THEN \* send_bytes: "socket closed"
          /\ Finish(o, "throw", << >>, -1, FALSE, FALSE, FALSE)
          /\ UNCHANGED wire
     ELSE \E ok \in WriteAllOutcomes :
            IF ok
            THEN /\ wire' = Request(OpCommand(o), payload)
                 /\ pc' = "rc"
                 /\ op' = o
                 /\ mtx' = IF LocksMutex(o) THEN "worker" ELSE mtx
                 /\ expected_command' = OpCommand(o)
                 /\ UNCHANGED << return_code, received_command, event_ed, size, ret,
                                 desynced, sessionVars >>
            ELSE \* send_bytes: "write failed"
                 /\ Finish(o, "throw", << >>, -1, FALSE, FALSE, FALSE)
                 /\ UNCHANGED wire

StartOp(o) == StartOpWith(o, OpPayload(o))

runFor == StartOp("runFor")
getTime == StartOp("getTime")
setState == StartOp("setState")
getMachine == StartOp("getMachine")
getGpio == StartOp("getGpio")
registerStateChangeCallback == StartOp("registerStateChangeCallback")

\* variant: unregistering leaves the registry alone
unregisterCallbackNoErase(ed) == callbacks_

\* unregisterCallback(ed): callbacks_.erase(ed)
unregisterCallback(ed) == callbacks_ \ {ed}

\* the handles a caller may pass: those handed out so far and one never issued
Handles == 1..nextCbHandle

\* Gpio::unregisterStateChangeCallback(handle)
unregisterStateChangeCallback ==
  /\ pc = "idle"
  /\ hasGpio
  /\ \E handle \in Handles :
       LET m == { x \in handleToServerEd : x[1] = handle } IN
       /\ callbacks_' = IF m = {} THEN callbacks_
                        ELSE unregisterCallback((CHOOSE x \in m : TRUE)[2])
       /\ handleToServerEd' = handleToServerEd \ m
       /\ gpioCallbacks' = IF m = {} THEN gpioCallbacks ELSE gpioCallbacks - 1
  /\ UNCHANGED << clientVars, mtx, sockBuf, inflight, peerClosed, wire, pc, op, localVars,
                  ret, nextId_, issued, monitorVars, closeVars, handshaken, sideVars, descriptor,
                  instanceId, nextCbHandle, hasMachine, holders, facade, made, hasGpio,
                  pumpVars, readVars, invoked, desynced, pumpLeft, countVars >>

\* a holder drops its shared_ptr; the facade dies with its last holder
releaseMachine ==
  /\ pc = "idle"
  /\ holders > 0
  /\ holders' = holders - 1
  /\ hasMachine' = (holders > 1)
  /\ facade' = IF holders > 1 THEN facade ELSE 0
  /\ descriptor' = IF holders > 1 THEN descriptor ELSE -1
  /\ UNCHANGED << clientVars, mtx, sockBuf, inflight, peerClosed, wire, pc, op, localVars,
                  ret, registryVars, monitorVars, closeVars, handshaken, sideVars, instanceId,
                  gpioCallbacks, handleToServerEd, nextCbHandle, made, hasGpio, pumpVars,
                  readVars, invoked, desynced,
                  pumpLeft, countVars >>
getAdc == StartOp("getAdc")
getSysBus == StartOp("getSysBus")

\* send(sock_fd, cmdLine) on the monitor connection succeeds or fails
MonitorSendOutcomes == {TRUE, FALSE}

\* Monitor::execute: the Error of a command line, given the outcome of its send
MonitorError(sendOk) ==
  IF monitor_fd < 0 THEN 1 ELSE IF sendOk THEN 0 ELSE 1

\* AMachine::pause: Monitor::pause over the monitor connection; neither
\* Impl::connected nor Impl::sock_fd is looked at
pause ==
  /\ pc = "idle"
  /\ hasMachine
  /\ nOps < MaxOps
  /\ nOps' = nOps + 1
  /\ seen' = << >>
  /\ invoked' = << >>
  /\ pumpLeft' = -1
  /\ pc' = "returned"
  /\ \E sendOk \in MonitorSendOutcomes :
       /\ ret' = [NoRet EXCEPT !.op = "pause", !.err = MonitorError(sendOk),
                               !.kind = IF MonitorError(sendOk) = 0 THEN "ok" ELSE "guard",
                               !.afterDesync = desynced]
       /\ monWire' = IF monitor_fd >= 0 /\ sendOk THEN << "pause" >> ELSE << >>
  /\ UNCHANGED << clientVars, mtx, sockBuf, inflight, peerClosed, wire, op, localVars,
                  registryVars, monitor_fd, closeVars, handshaken, sideVars, sessionVars, pumpVars, unread, headDone,
                  headBy, split, desynced, nEvents, nResponses >>

\* the caller has the result; the worker goes back to its event loop. A
\* machine is assigned to m_machine, which lets go of the pointer it held
\* the operation's caller goes on, keeping the callback handles `handles`
ReturnWith(handles) ==
  /\ pc = "returned"
  /\ pc' = "idle"
  /\ m_gpioCallbackHandles' = handles
  /\ ret' = NoRet
  /\ wire' = << >>
  /\ seen' = << >>
  /\ invoked' = << >>
  /\ monWire' = << >>
  /\ holders' = IF ret.op = "getMachine" /\ ~ret.null /\ holders > 1
                THEN holders - 1 ELSE holders
  /\ UNCHANGED << clientVars, mtx, sockBuf, inflight, peerClosed, op, localVars,
                  registryVars, monitor_fd, closeVars, handshaken, uiVars, monReadVars,
                  descriptor, instanceId, gpioCallbacks, handleToServerEd, nextCbHandle,
                  hasMachine, facade, made, hasGpio, pumpVars, unread, headDone, headBy,
                  split, desynced, pumpLeft, countVars >>

Return == ReturnWith(m_gpioCallbackHandles)

(***************************************************************************)
(* performHandshake: the payload as raw bytes, then one byte read           *)
(***************************************************************************)
\* the (command, version) pairs the client declares
command_versions ==
  << << RUN_FOR, 0 >>, << GET_TIME, 0 >>, << GET_MACHINE, 0 >>, << ADC, 0 >>,
     << GPIO, 1 >>, << SYSTEM_BUS, 0 >> >>

RECURSIVE Pairs(_)
Pairs(cv) == IF cv = << >> THEN << >> ELSE Head(cv) \o Pairs(Tail(cv))

\* buf: write_u16_le(count), then each pair
HandshakePayload == write_u16_le(Len(command_versions)) \o Pairs(command_versions)

\* variant: the handshake accepts every success code
HandshakeAcceptsAnySuccess(b) == b \in {SUCCESS_WITH_DATA, SUCCESS_WITHOUT_DATA, OK_HANDSHAKE}

\* response != OK_HANDSHAKE returns false
HandshakeAccepts(b) == b = OK_HANDSHAKE

\* performHandshake is over: it returned true (kind "ok") or false, or an
\* exception of send_bytes left it (kind "throw")
HandshakeEnds(kind, b, sent, eof) ==
  /\ ret' = [NoRet EXCEPT !.op = "performHandshake", !.err = IF kind = "ok" THEN 0 ELSE 1,
                          !.kind = kind, !.rc = b, !.sent = sent, !.eof = eof,
                          !.raised = (kind = "throw"), !.afterDesync = desynced]
  /\ handshaken' = (handshaken \/ kind = "ok")
  /\ pc' = "returned"
  /\ op' = "none"
  /\ UNCHANGED << clientVars, mtx, inflight, peerClosed, localVars, registryVars,
                  monitorVars, closeVars, sideVars, sessionVars, pumpVars, desynced,
                  pumpLeft, countVars >>

\* the handshake is the first thing done on a connection
performHandshake ==
  /\ pc = "idle"
  /\ nOps = 0
  /\ seen' = << >>
  /\ invoked' = << >>
  /\ UNCHANGED << sockBuf, unread, headDone, headBy, split >>
  /\ IF sock_fd < 0
     THEN \* send_bytes: "socket closed"
          /\ HandshakeEnds("throw", -1, FALSE, FALSE)
          /\ UNCHANGED wire
     ELSE \E ok \in WriteAllOutcomes :
            IF ok
            THEN /\ wire' = HandshakePayload
                 /\ pc' = "hs"
                 /\ op' = "performHandshake"
                 /\ UNCHANGED << clientVars, mtx, inflight, peerClosed, localVars, ret,
                                 registryVars, monitorVars, closeVars, handshaken, sideVars,
                                 sessionVars, pumpVars, desynced, pumpLeft, countVars >>
            ELSE \* send_bytes: "write failed"
                 /\ HandshakeEnds("throw", -1, FALSE, FALSE)
                 /\ UNCHANGED wire

\* read_byte(sock_fd, response) and the comparison with OK_HANDSHAKE
RecvHandshake ==
  /\ pc = "hs"
  /\ ReadAllReturns(1)
  /\ UNCHANGED << wire, invoked >>
  /\ IF ReadAllOk(1)
     THEN LET b == sockBuf[1] IN
          /\ Took(1, "recv")
          /\ HandshakeEnds(IF HandshakeAccepts(b) THEN "ok" ELSE "false", b, TRUE, FALSE)
     ELSE /\ Took(Buffered, "recv")
          /\ HandshakeEnds("false", -1, TRUE, TRUE)

(***************************************************************************)
(* recv_response, one action per blocking read                             *)
(***************************************************************************)
\* variant: no echoed command byte is read after INVALID_COMMAND
ReadsEchoNotAfterInvalid(rc) ==
  rc = COMMAND_FAILED \/ rc = SUCCESS_WITH_DATA \/ rc = SUCCESS_WITHOUT_DATA

\* the return codes after which the echoed command byte is read
ReadsEcho(rc) ==
  rc = COMMAND_FAILED \/ rc = INVALID_COMMAND \/ rc = SUCCESS_WITH_DATA
    \/ rc = SUCCESS_WITHOUT_DATA

\* the return codes after which a size and a payload are read
ReadsData(rc) == rc = COMMAND_FAILED \/ rc = FATAL_ERROR \/ rc = SUCCESS_WITH_DATA

\* the echoed-command validation
CommandMismatch(rcmd, cmdId) == rcmd # NoEcho /\ rcmd # cmdId

\* outcome of recv_response when the size or the payload of a response is cut short
TruncatedOutcome == "ok"

\* a read fails: recv_response raises
Throws == Finish(op, "throw", << >>, return_code, TRUE, TRUE, FALSE)

\* variant: the bytes read so far of the event are handed to the registry
EventReadFailsDispatching ==
  /\ Took(Buffered, "recv")
  /\ invokeCallback(event_ed, sockBuf, "recv")
  /\ Throws

\* a read of an event frame inside recv_response fails
EventReadFails ==
  /\ Took(Buffered, "recv")
  /\ UNCHANGED invoked
  /\ Throws

\* the end of recv_response: validate the echoed command, return the payload
ValidateAndReturn(p, rc, rcmd) ==
  IF CommandMismatch(rcmd, expected_command)
  THEN Finish(op, "throw", << >>, rc, TRUE, FALSE, TRUE)
  ELSE Finish(op, "ok", p, rc, TRUE, FALSE, FALSE)

\* `return {}` on a truncated size or payload
ReturnsTruncated == Finish(op, TruncatedOutcome, << >>, return_code, TRUE, TRUE, FALSE)

recvFrame ==
  << clientVars, inflight, peerClosed, wire, registryVars, monitorVars, closeVars, handshaken, sideVars, pumpVars, pumpLeft,
     countVars >>

RecvReturnCode ==
  /\ pc = "rc"
  /\ ReadAllReturns(1)
  /\ UNCHANGED recvFrame
  /\ UNCHANGED invoked
  /\ IF ReadAllOk(1)
     THEN LET b == sockBuf[1] IN
          /\ Took(1, "recv")
          /\ IF b = ASYNC_EVENT THEN Goto("ev_cmd", b, NoEcho, 0, 0)
             ELSE IF ReadsEcho(b) THEN Goto("echo", b, NoEcho, 0, 0)
             ELSE IF ReadsData(b) THEN Goto("size", b, NoEcho, 0, 0)
             ELSE ValidateAndReturn(<< >>, b, NoEcho)
     ELSE /\ Took(Buffered, "recv")
          /\ Throws

RecvEventCommand ==
  /\ pc = "ev_cmd"
  /\ ReadAllReturns(1)
  /\ UNCHANGED recvFrame
  /\ IF ReadAllOk(1)
     THEN /\ Took(1, "recv")
          /\ UNCHANGED invoked
          /\ Goto("ev_ed", return_code, NoEcho, 0, 0)
     ELSE EventReadFails

RecvEventEd ==
  /\ pc = "ev_ed"
  /\ ReadAllReturns(4)
  /\ UNCHANGED recvFrame
  /\ IF ReadAllOk(4)
     THEN /\ Took(4, "recv")
          /\ UNCHANGED invoked
          /\ Goto("ev_size", return_code, NoEcho, read_u32_le(ReadAllBytes(4)), 0)
     ELSE EventReadFails

RecvEventSize ==
  /\ pc = "ev_size"
  /\ ReadAllReturns(4)
  /\ UNCHANGED recvFrame
  /\ IF ReadAllOk(4)
     THEN LET event_size == read_u32_le(ReadAllBytes(4)) IN
          /\ Took(4, "recv")
          /\ IF event_size > 0
             THEN /\ UNCHANGED invoked
                  /\ Goto("ev_data", return_code, NoEcho, event_ed, event_size)
             ELSE /\ invokeCallback(event_ed, << >>, "recv")
                  /\ Goto("rc", 0, NoEcho, 0, 0)
     ELSE EventReadFails

RecvEventData ==
  /\ pc = "ev_data"
  /\ ReadAllReturns(size)
  /\ UNCHANGED recvFrame
  /\ IF ReadAllOk(size)
     THEN /\ Took(size, "recv")
          /\ invokeCallback(event_ed, ReadAllBytes(size), "recv")
          /\ Goto("rc", 0, NoEcho, 0, 0)
     ELSE EventReadFails

RecvEcho ==
  /\ pc = "echo"
  /\ ReadAllReturns(1)
  /\ UNCHANGED recvFrame
  /\ UNCHANGED invoked
  /\ IF ReadAllOk(1)
     THEN LET b == sockBuf[1] IN
          /\ Took(1, "recv")
          /\ IF ReadsData(return_code)
             THEN Goto("size", return_code, b, 0, 0)
             ELSE ValidateAndReturn(<< >>, return_code, b)
     ELSE /\ Took(Buffered, "recv")
          /\ Throws

RecvSize ==
  /\ pc = "size"
  /\ ReadAllReturns(4)
  /\ UNCHANGED recvFrame
  /\ UNCHANGED invoked
  /\ IF ReadAllOk(4)
     THEN LET data_size == read_u32_le(ReadAllBytes(4)) IN
          /\ Took(4, "recv")
          /\ IF data_size > 0
             THEN Goto("payload", return_code, received_command, 0, data_size)
             ELSE ValidateAndReturn(<< >>, return_code, received_command)
     ELSE /\ Took(Buffered, "recv")
          /\ ReturnsTruncated

RecvPayload ==
  /\ pc = "payload"
  /\ ReadAllReturns(size)
  /\ UNCHANGED recvFrame
  /\ UNCHANGED invoked
  /\ IF ReadAllOk(size)
     THEN /\ Took(size, "recv")
          /\ ValidateAndReturn(ReadAllBytes(size), return_code, received_command)
     ELSE /\ Took(Buffered, "recv")
          /\ ReturnsTruncated

(***************************************************************************)
(* ExternalControlClient::disconnect                                       *)
(***************************************************************************)
\* variant: the descriptor is closed whatever its value
SocketOpenAlways == TRUE

\* the guard of close(): if (pimpl_->sock_fd >= 0)
SocketOpen == sock_fd >= 0

\* ExternalControlClient::disconnect, but for what it leaves alone
Disconnects ==
  /\ pc = "idle"
  /\ nDisconnect < MaxDisconnects
  /\ nDisconnect' = nDisconnect + 1
  /\ IF SocketOpen
     THEN \* close(fd): what the socket still held is gone
          /\ nClose' = nClose + 1
          /\ sock_fd' = -1
          /\ sockBuf' = << >>
          /\ inflight' = << >>
          /\ unread' = << >>
          /\ headDone' = 0
          /\ headBy' = "none"
          /\ pumpLeft' = -1
     ELSE UNCHANGED << nClose, sock_fd, sockBuf, inflight, unread, headDone, headBy,
                       pumpLeft >>
  /\ connected' = FALSE
  /\ UNCHANGED << mtx, peerClosed, wire, pc, op, localVars, ret, nextId_, issued,
                  monitorVars, handshaken, uiVars, monReadVars, descriptor, instanceId,
                  nextCbHandle, facade, made, pumpVars, split, seen, invoked, desynced,
                  countVars >>

disconnect ==
  /\ Disconnects
  /\ UNCHANGED << callbacks_, gpioCallbacks, handleToServerEd, hasGpio, hasMachine,
                  holders, m_gpioCallbackHandles >>

(***************************************************************************)
(* RenodeEventDispatcher: the event pump                                   *)
(***************************************************************************)
\* the constructor: a read notifier on the session's socket descriptor
InstallDispatcher ==
  /\ pc = "idle"
  /\ ~installed
  /\ sock_fd >= 0
  /\ installed' = TRUE
  /\ m_fd' = sock_fd
  /\ UNCHANGED << clientVars, mtx, inflight, peerClosed, wire, pc, op, localVars, ret,
                  registryVars, monitorVars, closeVars, handshaken, sideVars, sessionVars, readVars, invoked, desynced, pumpLeft,
                  countVars >>

\* recv(m_fd, buf, n, MSG_PEEK | MSG_DONTWAIT) on the socket buffer b: the
\* number of bytes peeked, -1 on a closed descriptor
PeekCount(b, n) ==
  IF sock_fd < 0 \/ m_fd # sock_fd THEN -1 ELSE Min(n, Len(b))

\* variant: only the header of the frame is taken off the socket
ConsumeHeaderOnly(total_size) == kMinEventHeader

\* read_all(m_fd, buffer, total_size): the bytes the pump takes off the socket
\* for a frame it has peeked whole
ConsumeSize(total_size) == total_size

\* variant: the loop ends after the first frame
PumpFirstOnly(b) ==
  IF PeekCount(b, kMinEventHeader) < kMinEventHeader THEN << >>
  ELSE IF b[1] # ASYNC_EVENT THEN << >>
  ELSE LET total_size == kMinEventHeader + read_u32_le(SubSeq(b, 7, 10))
       IN IF PeekCount(b, total_size) < total_size THEN << >>
          ELSE << [ed |-> read_u32_le(SubSeq(b, 3, 6)),
                   data |-> SubSeq(b, kMinEventHeader + 1, total_size),
                   total |-> total_size] >>

\* the loop of onSocketReadable on the socket buffer b: the event frames it
\* consumes, in order, each as [ed, data, total]
RECURSIVE PumpLoop(_)
PumpLoop(b) ==
  LET peeked == PeekCount(b, kMinEventHeader) IN
  IF peeked <= 0 THEN << >>
  ELSE IF b[1] # ASYNC_EVENT THEN << >>
  ELSE IF peeked < kMinEventHeader THEN << >>
  ELSE LET event_size == read_u32_le(SubSeq(b, 7, 10))
           total_size == kMinEventHeader + event_size
       IN IF PeekCount(b, total_size) < total_size THEN << >>
          ELSE << [ed |-> read_u32_le(SubSeq(b, 3, 6)),
                   data |-> SubSeq(b, kMinEventHeader + 1, total_size),
                   total |-> ConsumeSize(total_size)] >>
               \o PumpLoop(SubSeq(b, ConsumeSize(total_size) + 1, Len(b)))

\* variant: one byte more than the peeked frames is taken off the socket
RECURSIVE SumTotalPlusOne(_)
SumTotalPlusOne(fs) ==
  IF fs = << >> THEN 1 ELSE Head(fs).total + SumTotalPlusOne(Tail(fs))

\* the bytes one activation consumes
RECURSIVE SumTotal(_)
SumTotal(fs) == IF fs = << >> THEN 0 ELSE Head(fs).total + SumTotal(Tail(fs))

\* variant: the handler is called for the last consumed frame first
PumpDispatchLastFirst(fs) ==
  [i \in 1..Len(fs) |-> [ed |-> fs[Len(fs) + 1 - i].ed, data |-> fs[Len(fs) + 1 - i].data,
                         by |-> "pump", found |-> fs[Len(fs) + 1 - i].ed \in callbacks_]]

\* m_handler(ed, data, size) for each consumed frame: dispatchEvent into the registry
PumpDispatch(fs) ==
  [i \in 1..Len(fs) |-> [ed |-> fs[i].ed, data |-> fs[i].data, by |-> "pump",
                         found |-> fs[i].ed \in callbacks_]]

\* variant: the slot runs whatever the worker is doing
PumpAnyTime == TRUE

\* the slot runs from the worker's event loop, between command slots
PumpMayRun == pc = "idle"

onSocketReadable ==
  /\ installed
  /\ PumpMayRun
  /\ Buffered > 0 \/ peerClosed \/ sock_fd < 0
  /\ LET fs == PumpLoop(sockBuf) IN
       /\ Took(SumTotal(fs), "pump")
       /\ invoked' = PumpDispatch(fs)
       /\ pumpLeft' = Len(sockBuf')
  /\ UNCHANGED << clientVars, mtx, inflight, peerClosed, wire, pc, op, localVars, ret,
                  registryVars, monitorVars, closeVars, handshaken, sideVars, sessionVars, pumpVars, desynced, countVars >>

(***************************************************************************)
(* Specification                                                           *)
(***************************************************************************)
Next ==
  \/ ServerSendEvent
  \/ ServerSendResponse
  \/ Deliver
  \/ ServerClose
  \/ runFor
  \/ getTime
  \/ setState
  \/ getMachine
  \/ Return
  \/ RecvReturnCode
  \/ RecvEventCommand
  \/ RecvEventEd
  \/ RecvEventSize
  \/ RecvEventData
  \/ RecvEcho
  \/ RecvSize
  \/ RecvPayload
  \/ disconnect
  \/ InstallDispatcher
  \/ onSocketReadable

Spec == Init /\ [][Next]_vars

\* the session whose Gpio is not registered
SpecUnregistered == InitUnregistered /\ [][Next]_vars

\* callbacks: registration and unregistration of state-change callbacks while
\* events arrive, with the exchanges, the pump and disconnect; the peer keeps
\* its end of the connection open
NextCallbacks ==
  \/ ServerSendEvent
  \/ ServerSendResponse
  \/ Deliver
  \/ registerStateChangeCallback
  \/ unregisterStateChangeCallback
  \/ Return
  \/ RecvReturnCode
  \/ RecvEventCommand
  \/ RecvEventEd
  \/ RecvEventSize
  \/ RecvEventData
  \/ RecvEcho
  \/ RecvSize
  \/ RecvPayload
  \/ disconnect
  \/ InstallDispatcher
  \/ onSocketReadable

SpecCallbacks == Init /\ [][NextCallbacks]_vars

\* the life cycle of the session: exchanges, the machine's monitor commands and
\* disconnect, without events
NextLifecycle ==
  \/ ServerSendResponse
  \/ Deliver
  \/ ServerClose
  \/ runFor
  \/ getMachine
  \/ pause
  \/ Return
  \/ RecvReturnCode
  \/ RecvEcho
  \/ RecvSize
  \/ RecvPayload
  \/ disconnect

SpecLifecycle == Init /\ [][NextLifecycle]_vars

\* bring-up: what can happen from connect() until the first peripheral is
\* registered; no event source exists yet and the dispatcher is not installed
NextBringUp ==
  \/ ServerSendResponse
  \/ Deliver
  \/ ServerClose
  \/ performHandshake
  \/ RecvHandshake
  \/ getMachine
  \/ getGpio
  \/ getAdc
  \/ getSysBus
  \/ releaseMachine
  \/ Return
  \/ RecvReturnCode
  \/ RecvEcho
  \/ RecvSize
  \/ RecvPayload
  \/ disconnect

SpecBringUp == InitConnected /\ [][NextBringUp]_vars

(***************************************************************************)
(* Properties of the frame engine and of the event pump                    *)
(***************************************************************************)
Exchanging == pc \notin {"idle", "returned"}

\* what the registry is handed for the event frame f by the reader `by`
Handed(f, by) == [ed |-> f.ed, data |-> f.data, by |-> by, found |-> f.ed \in callbacks_]

\* the frames the exchange that has returned consumed: events, then a success
\* response that echoes its command
EventsThenMatchingResponse ==
  /\ pc = "returned"
  /\ seen # << >>
  /\ seen[Len(seen)].code \in {SUCCESS_WITH_DATA, SUCCESS_WITHOUT_DATA}
  /\ seen[Len(seen)].cmd = ret.cmd
  /\ \A i \in 1..(Len(seen) - 1) : seen[i].code = ASYNC_EVENT

\* C1: an exchange that reads N event frames followed by the success response
\* echoing its command returns exactly the payload of that response, and by
\* then the registry has been handed exactly those N events, in stream order.
C1_EventsThenResponse ==
  EventsThenMatchingResponse =>
    /\ ret.kind = "ok"
    /\ ret.payload = seen[Len(seen)].data
    /\ invoked = [i \in 1..(Len(seen) - 1) |-> Handed(seen[i], "recv")]

\* two different events, then a response with a payload
C1_Witness ==
  /\ EventsThenMatchingResponse
  /\ Len(seen) = 3
  /\ seen[1] # seen[2]
  /\ ret.payload # << >>
  /\ Len(invoked) = 2

\* C2: whenever an exchange is in progress the session mutex is held by the
\* thread that runs it.
C2_ExchangeHoldsMutex == Exchanging => mtx = "worker"

\* the last reader to take bytes off the socket was the pump
PumpTook == invoked # << >> /\ invoked[Len(invoked)].by = "pump"

C4_NoFrameSplit == ~split /\ headBy # "pump"

\* the pump has dispatched a frame and left the incomplete event frame behind it
C4_Witness ==
  /\ PumpTook
  /\ pumpLeft = Len(sockBuf)
  /\ sockBuf # << >>
  /\ sockBuf[1] = ASYNC_EVENT
  /\ unread # << >>
  /\ headDone = 0

\* the event frames at the head of q that are whole within the first n bytes
RECURSIVE HeadEvents(_, _)
HeadEvents(q, n) ==
  IF q = << >> THEN << >>
  ELSE IF Head(q).code # ASYNC_EVENT \/ FrameLen(Head(q)) > n THEN << >>
  ELSE << Head(q) >> \o HeadEvents(Tail(q), n - FrameLen(Head(q)))

RECURSIVE SumLen(_)
SumLen(q) == IF q = << >> THEN 0 ELSE FrameLen(Head(q)) + SumLen(Tail(q))

\* C5: one activation of the pump on an open socket consumes exactly the
\* complete event frames at the head of the buffer (10 + size bytes each),
\* hands each to the handler once, in order, and leaves the rest.
C5_PumpConsumesCompleteEvents ==
  [][(onSocketReadable /\ sock_fd >= 0) =>
       LET h == IF headDone > 0 THEN << >> ELSE HeadEvents(unread, Buffered) IN
       /\ sockBuf' = SubSeq(sockBuf, SumLen(h) + 1, Len(sockBuf))
       /\ unread' = SubSeq(unread, Len(h) + 1, Len(unread))
       /\ invoked' = [i \in 1..Len(h) |-> Handed(h[i], "pump")]]_vars

\* the pump has dispatched two frames and left what follows them
C5_Witness ==
  /\ PumpTook
  /\ Len(invoked) = 2
  /\ invoked[1] # invoked[2]
  /\ pumpLeft = Len(sockBuf)
  /\ sockBuf # << >>

\* the head of the socket buffer is no complete event frame
HeadIncomplete ==
  \/ sockBuf = << >>
  \/ sockBuf[1] # ASYNC_EVENT
  \/ Len(sockBuf) < kMinEventHeader
  \/ Len(sockBuf) < kMinEventHeader + read_u32_le(SubSeq(sockBuf, 7, 10))

\* C6: an activation of the pump that finds no complete event frame at the head
\* of the buffer consumes nothing and dispatches nothing.
C6_PumpLeavesIncompleteHead ==
  [][(onSocketReadable /\ HeadIncomplete) =>
       sockBuf' = sockBuf /\ unread' = unread /\ headDone' = headDone
         /\ invoked' = << >>]_vars

\* the pump has run on a whole header whose payload has not arrived
C6_Witness ==
  /\ installed
  /\ pc = "idle"
  /\ pumpLeft = Len(sockBuf)
  /\ invoked = << >>
  /\ Len(sockBuf) = kMinEventHeader
  /\ sockBuf[1] = ASYNC_EVENT
  /\ HeadIncomplete

\* C7: an exchange whose response echoes another command ends in an error with
\* the socket closed, and every exchange after it fails without writing or
\* reading a byte.
C7_DesyncClosesSession ==
  pc = "returned" =>
    /\ ret.mismatch => (ret.err # 0 /\ sock_fd < 0 /\ ~connected)
    /\ ret.afterDesync => (ret.err # 0 /\ ~ret.sent /\ seen = << >>)

\* C8: an operation whose exchange is answered COMMAND_FAILED, INVALID_COMMAND
\* or FATAL_ERROR reports a non-zero Error.
C8_FailureCodesReported ==
  (pc = "returned" /\ ret.sent /\ ~ret.eof /\ ~ret.mismatch
     /\ ret.rc \in {COMMAND_FAILED, INVALID_COMMAND, FATAL_ERROR})
    => ret.err # 0

\* the exchange that has returned met the end of the stream inside an event frame
TruncatedEvent ==
  /\ pc = "returned"
  /\ ret.eof
  /\ unread # << >>
  /\ Head(unread).code = ASYNC_EVENT
  /\ headDone > 0
  /\ headBy = "recv"

\* C9: an exchange that meets the end of the stream inside an event frame
\* reports an error, and no callback is invoked for that frame.
C9_TruncatedEventFails ==
  TruncatedEvent =>
    /\ ret.err # 0
    /\ invoked = [i \in 1..Len(seen) |-> Handed(seen[i], "recv")]

\* a whole event was dispatched, then the stream ended inside the payload of
\* the next one: 0 < k < S
C9_Witness ==
  /\ TruncatedEvent
  /\ Len(seen) = 1
  /\ Len(invoked) = 1
  /\ headDone > kMinEventHeader
  /\ headDone < FrameLen(Head(unread))

\* the exchange that has returned met the end of the stream where a response
\* frame was due or inside one
TruncatedResponse ==
  /\ pc = "returned"
  /\ ret.sent
  /\ ret.eof
  /\ unread = << >> \/ Head(unread).code # ASYNC_EVENT

\* C10: an exchange that meets the end of the stream inside its response frame
\* reports an error: it never passes for a success with an empty payload.
C10_TruncatedResponseFails ==
  TruncatedResponse => (ret.err # 0 /\ ret.fired = 0)

\* C11: an exchange answered with a return code that is none of the five
\* response codes (OK_HANDSHAKE, or a byte outside the defined codes) ends in an
\* error with the control socket closed.
C11_UnexpectedCodeIsFatal ==
  (pc = "returned" /\ ret.sent /\ ~ret.eof
     /\ ret.rc \notin {COMMAND_FAILED, FATAL_ERROR, INVALID_COMMAND, SUCCESS_WITH_DATA,
                       SUCCESS_WITHOUT_DATA})
    => (ret.err # 0 /\ sock_fd < 0 /\ ~connected)

\* the exchange that has returned read a whole response
ReadResponse == pc = "returned" /\ ret.sent /\ ~ret.eof

\* C12: an exchange that returns has consumed exactly the bytes of the response
\* frame as the wire format lays it out for its return code, so the stream is
\* at a frame boundary; after COMMAND_FAILED or INVALID_COMMAND the socket is
\* still open.
C12_ResponseShapeConsumed ==
  ReadResponse =>
    /\ headDone = 0
    /\ seen # << >>
    /\ seen[Len(seen)].code = ret.rc
    /\ seen[Len(seen)].code # ASYNC_EVENT
    /\ (ret.rc \in {COMMAND_FAILED, INVALID_COMMAND} /\ ~ret.mismatch)
         => (sock_fd >= 0 /\ connected)

\* a second exchange has read an INVALID_COMMAND reply and nothing is left over
C12_Witness ==
  /\ ReadResponse
  /\ nOps = 2
  /\ ret.rc = INVALID_COMMAND
  /\ sockBuf = << >>
  /\ unread = << >>

C14_ClosedIsTerminal ==
  (pc = "returned" /\ ~connected /\ sock_fd < 0)
    => (ret.err # 0 /\ ~ret.sent /\ wire = << >> /\ monWire = << >>)

\* C15: disconnect() always leaves the socket closed and the connected flag
\* false; called on a session it has already closed it changes nothing, and the
\* control socket is closed once.
C15_DisconnectIdempotent ==
  [][disconnect =>
       /\ sock_fd' = -1
       /\ ~connected'
       /\ nClose' <= 1
       /\ sock_fd < 0 =>
            UNCHANGED << sock_fd, connected, nClose, sockBuf, inflight, unread, monitor_fd,
                         callbacks_, mtx >>]_vars

\* disconnect() has been called twice
C15_Witness ==
  /\ nDisconnect = 2
  /\ nClose = 1
  /\ sock_fd = -1
  /\ ~connected


(***************************************************************************)
(* Bring-up: handshake, getMachine, peripheral registration                *)
(***************************************************************************)
\* performHandshake has returned to its caller
HandshakeReturned == pc = "returned" /\ ret.op = "performHandshake"

\* getMachine has returned a facade
MachineReturned == pc = "returned" /\ ret.op = "getMachine" /\ ret.err = 0 /\ ~ret.null

\* C16: the session follows Initial -> Connected -> Ready -> Operational ->
\* Closed: getMachine gives a machine only after a handshake has succeeded on
\* the connection, and a handshake that fails leaves the session closed.
C16_SessionStateMachine ==
  /\ MachineReturned => handshaken
  /\ (HandshakeReturned /\ ret.err # 0) => (sock_fd < 0 /\ ~connected)
C18_NothingRaisesAfterConnect == pc = "returned" => ~ret.raised
\* the machine descriptor a registration request on the wire carries
SentDescriptor == read_i32_le(SubSeq(wire, 12, 15))

\* C19: a facade returned by getMachine has descriptor >= 0: a reply that is
\* not exactly 4 bytes, or whose 4 bytes decode to a negative number, gives
\* null and a non-zero error; so every registration request that is sent
\* names a machine whose descriptor is >= 0.
C19_MachineDescriptorNonNegative ==
  /\ hasMachine => descriptor >= 0
  /\ (pc = "returned" /\ ret.op = "getMachine") =>
       /\ ret.null <=> ret.err # 0
       /\ ~ret.null => (ret.id >= 0 /\ ret.id = descriptor)
       /\ (Len(ret.payload) # 4 \/ ret.payload[4] >= 128) => (ret.null /\ ret.err # 0)
  /\ (pc = "returned" /\ ret.op \in Registrations /\ ret.sent) => SentDescriptor >= 0

C19_Witness ==
  pc = "returned" /\ ret.op = "getMachine" /\ ret.payload = << 255, 255, 255, 255 >>
    /\ ret.null /\ ret.err = 4 /\ ~hasMachine
\* a registration has been sent and has returned to its caller
RegistrationReturned == pc = "returned" /\ ret.op \in Registrations /\ ret.sent

\* the request a registration of `path` under command c must put on the wire
ExpectedRegistration(c, path) ==
  << 82, 69, c, 12 + Len(path), 0, 0, 0 >>
    \o << 255, 255, 255, 255 >> \o << descriptor, 0, 0, 0 >>
    \o << Len(path), 0, 0, 0 >> \o path

\* C20: a peripheral registration transmits exactly [i32 -1][i32 machine
\* descriptor][u32 len(path)][path bytes] under the command of the
\* peripheral, and returns an object exactly when the response payload is 4
\* bytes that decode to a non-negative i32, which is the object's instanceId;
\* otherwise it returns null and a non-zero error.
C20_RegistrationRoundTrip ==
  RegistrationReturned =>
    /\ ret.op = "getGpio" => wire = ExpectedRegistration(5, << 103 >>)
    /\ ret.op = "getAdc" => wire = ExpectedRegistration(4, << 97, 100 >>)
    /\ ret.op = "getSysBus" => wire = ExpectedRegistration(6, << >>)
    /\ ~ret.null <=> (ret.kind = "ok" /\ Len(ret.payload) = 4 /\ ret.payload[4] < 128)
    /\ ~ret.null =>
         /\ ret.err = 0
         /\ ret.id = ret.payload[1] + 256 * ret.payload[2] + 65536 * ret.payload[3]
                       + 16777216 * ret.payload[4]
         /\ ret.op = "getGpio" => (hasGpio /\ instanceId = ret.id)
    /\ ret.null => (ret.err # 0 /\ ret.id = -1)

C20_Witness ==
  RegistrationReturned /\ ret.op = "getGpio" /\ ~ret.null /\ instanceId = 7 /\ ret.rc = SUCCESS_WITH_DATA
\* C21: while any holder keeps the facade of a name alive, getMachine for that
\* name returns that same object (with the descriptor it already has); a new
\* facade is constructed only when no holder of the earlier one remains.
C21_SameFacadeWhileHeld ==
  [][(pc' = "returned" /\ ret'.op = "getMachine" /\ ~ret'.null) =>
       /\ holders > 0 => (ret'.obj = facade /\ made' = made /\ descriptor' = descriptor)
       /\ holders = 0 => (ret'.obj = made + 1 /\ made' = made + 1)
       /\ facade' = ret'.obj]_vars

C21_Witness ==
  pc = "returned" /\ ret.op = "getMachine" /\ ~ret.null /\ ret.obj = 1 /\ made = 1 /\ holders = 2

(***************************************************************************)
(* Event descriptors and callbacks                                         *)
(***************************************************************************)
\* C22: the descriptors the registry hands out are strictly increasing, so
\* none is handed out twice, whatever has been unregistered in between.
C22_DescriptorsMonotonic ==
  \A i, j \in 1..Len(issued) : i < j => issued[i] < issued[j]

C22_Witness ==
  Len(issued) = 3 /\ issued[3] = 2 /\ 0 \notin callbacks_ /\ 2 \in callbacks_

\* the calls the registry has been asked to make in this step
NewlyInvoked == { invoked'[k] : k \in (Len(invoked) + 1)..Len(invoked') }

\* C23: a registered callback stays eligible for dispatch until it is
\* unregistered explicitly: a descriptor leaves the registry only in a step of
\* unregisterStateChangeCallback, which removes the descriptor of the handle
\* it is given, and an invoke finds a callback exactly when its descriptor is
\* in the registry; an exchange, a pump activation, a disconnect or a failed
\* command remove nothing.
C23_EligibleUntilUnregistered ==
  [][/\ (callbacks_ \ callbacks_' # {}) => unregisterStateChangeCallback
     /\ unregisterStateChangeCallback =>
          \A x \in handleToServerEd \ handleToServerEd' : x[2] \notin callbacks_'
     /\ (Len(invoked') > Len(invoked)) =>
          \A e \in NewlyInvoked : e.found = (e.ed \in callbacks_)]_vars

C23_Witness ==
  /\ 0 \notin callbacks_ /\ 1 \in callbacks_
  /\ \E k \in 1..Len(invoked) : invoked[k].ed = 0 /\ ~invoked[k].found
  /\ \E k \in 1..Len(invoked) : invoked[k].ed = 1 /\ invoked[k].found
  /\ sock_fd >= 0

(***************************************************************************)
(* The application: SimulationController on the UI thread, RenodeWorker on *)
(* its own thread, queued signals in both directions                       *)
(***************************************************************************)
\* commands the user may post
MaxPosts == 4

\* what a slot of the worker leaves alone in the library
libRest == << mtx, sockBuf, inflight, peerClosed, wire, pc, op, localVars, ret, registryVars,
             monWire, closeVars, descriptor, instanceId, gpioCallbacks, handleToServerEd,
             nextCbHandle, facade, made, hasGpio, pumpVars, readVars, invoked, desynced,
             pumpLeft, countVars, monReadVars, m_gpioCallbackHandles >>

\* the worker thread is in its event loop or in a slot; an exception that
\* leaves a slot ends the process
Alive == wPc # "terminated"

\* emit request...(): the call is queued on the worker's thread
Post(name) ==
  /\ workerQ' = Append(workerQ, [id |-> nPosted + 1, name |-> name])
  /\ nPosted' = nPosted + 1

\* emit of result signals in a slot: the calls are queued on the UI thread
RECURSIVE Events(_, _)
Events(names, id) ==
  IF names = << >> THEN << >>
  ELSE << [name |-> Head(names), of |-> id] >> \o Events(Tail(names), id)

Emit(names) == uiQ' = uiQ \o Events(names, wCmd.id)

\* the slot returns to the worker's event loop
SlotOver == wPc' = "idle"

\* m_client.reset(): ~ExternalControlClient disconnects; the monitor goes too
ClientReset ==
  /\ m_client' = FALSE
  /\ sock_fd' = -1
  /\ connected' = FALSE
  /\ handshaken' = FALSE
  /\ monitor_fd' = -1

\* SimulationController::connectToRenode
connectToRenode ==
  /\ Alive
  /\ nPosted < MaxPosts
  /\ ~(m_connecting \/ m_connected)
  /\ m_connecting' = TRUE
  /\ Post("connect")
  /\ UNCHANGED << libRest, clientVars, handshaken, monitor_fd, hasMachine, holders, uiQ,
                  wPc, wCmd, m_connected, m_client, lastStarted, connectsEnded,
                  connEvents >>

\* SimulationController::disconnect
requestDisconnect ==
  /\ Alive
  /\ nPosted < MaxPosts
  /\ m_connected \/ m_connecting
  /\ Post("disconnect")
  /\ UNCHANGED << libRest, clientVars, handshaken, monitor_fd, hasMachine, holders, uiQ,
                  wPc, wCmd, m_connecting, m_connected, m_client, lastStarted,
                  connectsEnded, connEvents >>

\* SimulationController::runFor
requestRunFor ==
  /\ Alive
  /\ nPosted < MaxPosts
  /\ m_connected
  /\ Post("runFor")
  /\ UNCHANGED << libRest, clientVars, handshaken, monitor_fd, hasMachine, holders, uiQ,
                  wPc, wCmd, m_connecting, m_connected, m_client, lastStarted,
                  connectsEnded, connEvents >>

\* the UI thread's event loop takes the next queued call of a result slot
UiTakes(name) ==
  /\ Alive
  /\ uiQ # << >>
  /\ Head(uiQ).name = name
  /\ uiQ' = Tail(uiQ)
  /\ UNCHANGED << libRest, clientVars, handshaken, monitor_fd, hasMachine, holders, wPc,
                  wCmd, m_client, lastStarted, connectsEnded, connEvents >>

\* SimulationController::onConnected
onConnected ==
  /\ UiTakes("connected")
  /\ m_connecting' = FALSE
  /\ m_connected' = TRUE
  /\ Post("discover")

\* SimulationController::onConnectionFailed
onConnectionFailed ==
  /\ UiTakes("connectionFailed")
  /\ m_connecting' = FALSE
  /\ UNCHANGED << m_connected, workerQ, nPosted >>

\* SimulationController::onDisconnected
onDisconnected ==
  /\ UiTakes("disconnected")
  /\ m_connecting' = FALSE
  /\ m_connected' = FALSE
  /\ UNCHANGED << workerQ, nPosted >>

\* SimulationController::onPeripheralsDiscovered, no port found
onPeripheralsDiscovered ==
  /\ UiTakes("peripheralsDiscovered")
  /\ Post("getTime")
  /\ UNCHANGED << m_connecting, m_connected >>

\* SimulationController::onSimulationTimeUpdated, onRunForCompleted and
\* onRunForFailed: the flags and the queues stay as they are
onRunForResult ==
  /\ \E name \in {"simulationTimeUpdated", "runForCompleted", "runForFailed"} :
       UiTakes(name)
  /\ UNCHANGED << m_connecting, m_connected, workerQ, nPosted >>

\* the worker's event loop takes the next queued call of a slot
Starts(name, at) ==
  /\ wPc = "idle"
  /\ workerQ # << >>
  /\ Head(workerQ).name = name
  /\ workerQ' = Tail(workerQ)
  /\ wCmd' = Head(workerQ)
  /\ lastStarted' = Head(workerQ).id
  /\ wPc' = at
  /\ UNCHANGED << libRest, clientVars, handshaken, monitor_fd, hasMachine, holders, uiQ,
                  m_connecting, m_connected, m_client, nPosted, connectsEnded,
                  connEvents >>

\* RenodeWorker::doConnect is entered
doConnect ==
  /\ Starts("connect", "launchAndConnect")

\* a doConnect that is over, having emitted the events named
ConnectOver(names) ==
  /\ connectsEnded' = connectsEnded + 1
  /\ connEvents' = connEvents + Len(names)
  /\ Emit(names)

\* doConnect: launchAndConnect returns a client or throws RenodeException,
\* which doConnect catches
launchAndConnect ==
  /\ wPc = "launchAndConnect"
  /\ \E ok \in BOOLEAN :
       IF ok
       THEN /\ m_client' = TRUE
            /\ sock_fd' = 3
            /\ connected' = TRUE
            /\ wPc' = "performHandshake"
            /\ UNCHANGED << uiQ, connectsEnded, connEvents, hasMachine, holders >>
       ELSE /\ ConnectOver(<< "connectionFailed" >>)
            /\ m_client' = FALSE
            /\ hasMachine' = FALSE
            /\ holders' = 0
            /\ sock_fd' = -1
            /\ connected' = FALSE
            /\ SlotOver
  /\ UNCHANGED << libRest, handshaken, monitor_fd, workerQ, wCmd, m_connecting,
                  m_connected, nPosted, lastStarted >>

\* what performHandshake does in doConnect: it returns true or false, or the
\* std::runtime_error of send_bytes leaves it
HandshakeOutcomes == {"true", "false", "throws"}

\* doConnect: performHandshake; false is surfaced; doConnect catches
\* RenodeException only, so a std::runtime_error leaves the slot
workerHandshake ==
  /\ wPc = "performHandshake"
  /\ \E h \in HandshakeOutcomes :
       CASE h = "true" ->
              /\ handshaken' = TRUE
              /\ wPc' = "connectMonitor"
              /\ UNCHANGED << clientVars, monitor_fd, m_client, uiQ, connectsEnded,
                              connEvents >>
         [] h = "false" ->
              /\ ConnectOver(<< "connectionFailed" >>)
              /\ ClientReset
              /\ SlotOver
         [] h = "throws" ->
              /\ ConnectOver(<< >>)
              /\ wPc' = "terminated"
              /\ UNCHANGED << clientVars, handshaken, monitor_fd, m_client >>
  /\ UNCHANGED << libRest, hasMachine, holders, workerQ, wCmd, m_connecting, m_connected,
                  nPosted, lastStarted >>

\* doConnect: connectMonitor, whose result is not looked at
workerConnectMonitor ==
  /\ wPc = "connectMonitor"
  /\ \E ok \in BOOLEAN : monitor_fd' = IF ok THEN 4 ELSE -1
  /\ wPc' = "getMachine"
  /\ UNCHANGED << libRest, clientVars, handshaken, hasMachine, holders, workerQ, uiQ,
                  wCmd, m_connecting, m_connected, m_client, nPosted, lastStarted,
                  connectsEnded, connEvents >>

\* doConnect: getMachine; its Error is surfaced, its machine is kept
workerGetMachine ==
  /\ wPc = "getMachine"
  /\ \E ok \in BOOLEAN :
       IF ok
       THEN /\ ConnectOver(<< "connected" >>)
            /\ hasMachine' = TRUE
            /\ holders' = 1
            /\ UNCHANGED << clientVars, handshaken, monitor_fd, m_client >>
       ELSE /\ ConnectOver(<< "connectionFailed" >>)
            /\ ClientReset
            /\ UNCHANGED << hasMachine, holders >>
  /\ SlotOver
  /\ UNCHANGED << libRest, workerQ, wCmd, m_connecting, m_connected, nPosted,
                  lastStarted >>

\* RenodeWorker::doDisconnect
doDisconnect ==
  /\ Starts("disconnect", "doDisconnect")

\* doDisconnect: the machine and the client are let go, disconnected is emitted
workerDisconnect ==
  /\ wPc = "doDisconnect"
  /\ hasMachine' = FALSE
  /\ holders' = 0
  /\ IF m_client THEN ClientReset
                 ELSE UNCHANGED << clientVars, handshaken, monitor_fd, m_client >>
  /\ Emit(<< "disconnected" >>)
  /\ SlotOver
  /\ UNCHANGED << libRest, workerQ, wCmd, m_connecting, m_connected, nPosted,
                  lastStarted, connectsEnded, connEvents >>

\* RenodeWorker::doRunFor is entered
doRunFor ==
  /\ Starts("runFor", "runFor")

\* doRunFor: without a machine nothing is done; else runFor, whose Error is
\* surfaced
workerRunFor ==
  /\ wPc = "runFor"
  /\ IF holders = 0
     THEN /\ SlotOver
          /\ UNCHANGED uiQ
     ELSE \E ok \in BOOLEAN :
            IF ok THEN /\ wPc' = "getTime"
                       /\ UNCHANGED uiQ
                  ELSE /\ Emit(<< "runForFailed" >>)
                       /\ SlotOver
  /\ UNCHANGED << libRest, clientVars, handshaken, monitor_fd, hasMachine, holders,
                  workerQ, wCmd, m_connecting, m_connected, m_client, nPosted,
                  lastStarted, connectsEnded, connEvents >>

\* doRunFor after runFor, and doGetTime: getTime, whose value is emitted when
\* there is one
workerGetTime ==
  /\ wPc = "getTime"
  /\ \E ok \in BOOLEAN :
       Emit((IF ok /\ holders > 0 THEN << "simulationTimeUpdated" >> ELSE << >>)
            \o (IF wCmd.name = "runFor" THEN << "runForCompleted" >> ELSE << >>))
  /\ SlotOver
  /\ UNCHANGED << libRest, clientVars, handshaken, monitor_fd, hasMachine, holders,
                  workerQ, wCmd, m_connecting, m_connected, m_client, nPosted,
                  lastStarted, connectsEnded, connEvents >>

\* RenodeWorker::doGetTime is entered
doGetTime ==
  /\ Starts("getTime", "getTime")

\* RenodeWorker::doDiscoverPeripherals is entered
doDiscoverPeripherals ==
  /\ Starts("discover", "discover")

\* doDiscoverPeripherals: the ports found are emitted, none among them here
workerDiscover ==
  /\ wPc = "discover"
  /\ Emit(<< "peripheralsDiscovered" >>)
  /\ SlotOver
  /\ UNCHANGED << libRest, clientVars, handshaken, monitor_fd, hasMachine, holders,
                  workerQ, wCmd, m_connecting, m_connected, m_client, nPosted,
                  lastStarted, connectsEnded, connEvents >>

NextApp ==
  \/ connectToRenode
  \/ requestDisconnect
  \/ requestRunFor
  \/ onConnected
  \/ onConnectionFailed
  \/ onDisconnected
  \/ onPeripheralsDiscovered
  \/ onRunForResult
  \/ doConnect
  \/ launchAndConnect
  \/ workerHandshake
  \/ workerConnectMonitor
  \/ workerGetMachine
  \/ doDisconnect
  \/ workerDisconnect
  \/ doRunFor
  \/ workerRunFor
  \/ workerGetTime
  \/ doGetTime
  \/ doDiscoverPeripherals
  \/ workerDiscover

SpecApp == InitApplication /\ [][NextApp]_vars

(***************************************************************************)
(* Monitor: the text connection, read up to a prompt                       *)
(***************************************************************************)
\* everything but the application's threads and the monitor's reader
coreVars == << clientVars, mtx, sockBuf, inflight, peerClosed, wire, pc, op, localVars, ret,
              registryVars, monitorVars, closeVars, handshaken, sessionVars, pumpVars,
              readVars, invoked, desynced, pumpLeft, countVars >>

\* chunks the monitor server writes
MaxMonChunks == 2

\* the characters that matter to the reader: "sp" is a space, "nl" a newline
\* and "x" any other character
MonChunks ==
  { << "x", "nl" >>,
    << "x" >>,
    << "(", "x", ")", "sp" >>,
    << "x", "nl", "(", "x", ")", "sp" >>,
    << "(", "x", ")", "sp", "x", "nl" >>,
    << "(", "x", ")", "sp", "x", "nl", "(", "x", ")", "sp" >> }

SetMax(S) == CHOOSE m \in S : \A i \in S : i <= m
SetMin(S) == CHOOSE m \in S : \A i \in S : m <= i

\* std::string::rfind(") "): the last position where ") " starts, 0 for npos
RFindPrompt(s) ==
  LET at == { i \in 1..(Len(s) - 1) : s[i] = ")" /\ s[i + 1] = "sp" }
  IN  IF at = {} THEN 0 ELSE SetMax(at)

\* std::string::rfind(c, pos): the last position <= pos holding c, 0 for npos
RFindChar(s, c, pos) ==
  LET at == { i \in 1..Min(pos, Len(s)) : s[i] = c }
  IN  IF at = {} THEN 0 ELSE SetMax(at)

\* std::string::find(c, pos): the first position >= pos holding c, 0 for npos
FindChar(s, c, pos) ==
  LET at == { i \in pos..Len(s) : s[i] = c }
  IN  IF at = {} THEN 0 ELSE SetMin(at)

\* the test readUntilPrompt makes after each chunk
PromptFound(s) ==
  /\ RFindPrompt(s) # 0
  /\ RFindChar(s, "(", RFindPrompt(s)) # 0
  /\ RFindPrompt(s) > RFindChar(s, "(", RFindPrompt(s))

\* result.substr(0, lineStart): what is left of the buffer once the line
\* holding the prompt is cut off
StripPrompt(s) ==
  SubSeq(s, 1, RFindChar(s, "nl", RFindChar(s, "(", RFindPrompt(s))))

\* the end of the trimmed response: trailing newlines and spaces go
RECURSIVE TrimEnd(_, _, _)
TrimEnd(s, start, end) ==
  IF end > start /\ s[end] \in {"nl", "sp"} THEN TrimEnd(s, start, end - 1) ELSE end

\* sendCommand, after the read: the echoed line and the trailing blanks go
CommandOutput(response) ==
  LET start0 == IF response # << >> /\ response[1] = "nl" THEN 1 ELSE 0
      cmdEnd == FindChar(response, "nl", start0 + 1)
      start == IF cmdEnd # 0 THEN cmdEnd ELSE start0
  IN  SubSeq(response, start + 1, TrimEnd(response, start, Len(response)))

\* sendCommand: the Error that goes with the response read
sendCommandError(gotPrompt) == 0

\* readUntilPrompt is over, its caller returns
MonFinish(buffer, gotPrompt) ==
  LET response == IF gotPrompt THEN StripPrompt(buffer) ELSE buffer
  IN  /\ monPc' = "returned"
      /\ result' = response
      /\ monRet' = [monRet EXCEPT !.err = IF monRet.op = "connect" THEN 0
                                          ELSE sendCommandError(gotPrompt),
                                  !.output = IF monRet.op = "connect" THEN << >>
                                             ELSE CommandOutput(response),
                                  !.raw = buffer,
                                  !.prompt = gotPrompt,
                                  !.eof = ~gotPrompt]

\* ExternalControlClient::connectMonitor: Monitor::connect, which reads the
\* initial prompt; a monitor that is there already is kept
connectMonitor ==
  /\ monPc = "idle"
  /\ \E ok \in BOOLEAN :
       IF monitor_fd >= 0 \/ ~ok
       THEN /\ monPc' = "returned"
            /\ monRet' = [NoMonRet EXCEPT !.op = "connect",
                                          !.err = IF monitor_fd >= 0 THEN 0 ELSE 1]
            /\ UNCHANGED << monitor_fd, result >>
       ELSE /\ monitor_fd' = 4
            /\ monPc' = "read"
            /\ result' = << >>
            /\ monRet' = [NoMonRet EXCEPT !.op = "connect"]
  /\ UNCHANGED << clientVars, mtx, sockBuf, inflight, peerClosed, wire, pc, op, localVars,
                  ret, registryVars, monWire, closeVars, handshaken, sessionVars, pumpVars,
                  readVars, invoked, desynced, pumpLeft, countVars, appVars, monIn,
                  monEof, nMonChunks >>

\* Monitor::execute: without a connection "Not connected"; else sendCommand
\* sends the line and goes on to read
execute ==
  /\ monPc = "idle"
  /\ \E sendOk \in MonitorSendOutcomes :
       IF MonitorError(sendOk) # 0
       THEN /\ monPc' = "returned"
            /\ monRet' = [NoMonRet EXCEPT !.op = "execute", !.err = 1,
                                          !.unreadAtCall = Len(monIn)]
            /\ UNCHANGED result
       ELSE /\ monPc' = "read"
            /\ result' = << >>
            /\ monRet' = [NoMonRet EXCEPT !.op = "execute", !.unreadAtCall = Len(monIn)]
  /\ UNCHANGED << coreVars, appVars, monIn, monEof, nMonChunks >>

\* one turn of readUntilPrompt's loop: recv of what is there, at most 255
\* bytes; 0 once the peer has closed
MonRecv ==
  /\ monPc = "read"
  /\ IF monIn # << >>
     THEN \E n \in 1..Min(255, Len(monIn)) :
            LET buffer == result \o SubSeq(monIn, 1, n)
            IN  /\ monIn' = SubSeq(monIn, n + 1, Len(monIn))
                /\ IF PromptFound(buffer)
                   THEN MonFinish(buffer, TRUE)
                   ELSE /\ result' = buffer
                        /\ UNCHANGED << monPc, monRet >>
     ELSE /\ monEof
          /\ MonFinish(result, FALSE)
          /\ UNCHANGED monIn
  /\ UNCHANGED << coreVars, appVars, monEof, nMonChunks >>

\* the caller of execute or connectMonitor has the result
MonReturn ==
  /\ monPc = "returned"
  /\ monPc' = "idle"
  /\ monRet' = NoMonRet
  /\ result' = << >>
  /\ UNCHANGED << coreVars, appVars, monIn, monEof, nMonChunks >>

\* the monitor server writes a chunk of text
MonServerWrite ==
  /\ monitor_fd >= 0
  /\ ~monEof
  /\ nMonChunks < MaxMonChunks
  /\ nMonChunks' = nMonChunks + 1
  /\ \E c \in MonChunks : monIn' = monIn \o c
  /\ UNCHANGED << coreVars, appVars, monPc, result, monEof, monRet >>

\* the monitor server closes the connection
MonServerClose ==
  /\ monitor_fd >= 0
  /\ ~monEof
  /\ monEof' = TRUE
  /\ UNCHANGED << coreVars, appVars, monPc, monIn, result, monRet, nMonChunks >>

NextMonitor ==
  \/ connectMonitor
  \/ execute
  \/ MonRecv
  \/ MonReturn
  \/ MonServerWrite
  \/ MonServerClose

SpecMonitor == InitConnected /\ [][NextMonitor]_vars

\* a session there is: the worker holds the client and its machine and is
\* back in its event loop
SessionCreated == m_client /\ holders > 0 /\ wPc = "idle" /\ sock_fd >= 0

\* C24: in every session the event pump is installed on the control socket,
\* so that event frames arriving between exchanges are dispatched by it
C24_PumpInstalledInSession == SessionCreated => (installed /\ m_fd = sock_fd)

\* C25: the worker starts the commands in the order they were posted, and
\* when it starts one no result event of an earlier command is still waiting
\* to be handled by the UI
C25_ResultsBeforeNextStart ==
  [][(wPc = "idle" /\ wPc' # "idle") =>
       /\ lastStarted' > lastStarted
       /\ \A i \in 1..Len(uiQ) : uiQ[i].of >= lastStarted']_vars

\* the worker is inside an exchange of runFor or getTime
ExchangeInFlight == wPc \in {"runFor", "getTime"} /\ holders > 0

DisconnectPosted == \E i \in 1..Len(workerQ) : workerQ[i].name = "disconnect"

\* C26: a disconnect issued while a command is in flight takes effect at
\* once: the worker's doDisconnect, which closes the socket, can run while
\* the exchange is still waiting
C26_DisconnectCutsInFlight ==
  (ExchangeInFlight /\ DisconnectPosted) => ENABLED doDisconnect

\* C27: every doConnect that is over has emitted exactly one of connected
\* and connectionFailed
C27_ConnectEndsInOneEvent == connEvents = connectsEnded

\* the buffer ends with "(" ... ")" " "
EndsWithPrompt(s) ==
  /\ Len(s) >= 3
  /\ s[Len(s)] = "sp"
  /\ s[Len(s) - 1] = ")"
  /\ RFindChar(s, "(", Len(s) - 2) # 0

ExecuteReturned == monPc = "returned" /\ monRet.op = "execute"

\* C28: when execute returns on a prompt, the bytes it had received ended
\* with the prompt: a "(x) " with further bytes after it does not end the read
C28_ReadEndsAtFinalPrompt ==
  (ExecuteReturned /\ monRet.prompt) => EndsWithPrompt(monRet.raw)

\* C29: execute never waits without end: while it reads, the reader itself
\* can always take its next step, whatever the server does or does not send
C29_ReadNeverWaitsOnServer ==
  (monPc = "read" /\ monRet.op = "execute") => ENABLED MonRecv

\* C30: when the connection is closed before a prompt has come, execute
\* returns a non-zero error
C30_CloseBeforePromptIsError ==
  (ExecuteReturned /\ monRet.eof) => monRet.err # 0

(***************************************************************************)
(* Gpio: the wrapper registered for a pin, and the events it is handed     *)
(***************************************************************************)
\* the pin RenodeWorker::registerGpioCallbacks registers its callback for
RegisteredPin == 0

\* GPIO events as the server sends them: a u64 timestamp and a state byte;
\* one payload is a byte short
Timestamp == << 1, 0, 0, 0, 0, 0, 0, 0 >>

GpioEventChoices ==
  { EventFrame(0, Timestamp \o << 0 >>),
    EventFrame(0, Timestamp \o << 1 >>),
    EventFrame(0, Timestamp \o << 2 >>),
    EventFrame(0, Timestamp),
    EventFrame(1, Timestamp \o << 1 >>) }

ServerSendGpioEvent ==
  /\ nEvents < MaxEvents
  /\ nEvents' = nEvents + 1
  /\ UNCHANGED nResponses
  /\ \E f \in GpioEventChoices : ServerWrite(f)

\* variant: the state byte is compared with 1
wrapperCbHighIsOne(pin, data) ==
  IF Len(data) >= 9
  THEN << [pin |-> pin, state |-> IF data[9] = 1 THEN "High" ELSE "Low"] >>
  ELSE << >>

\* wrapperCb(data, size): the calls of the user's callback cb it makes
wrapperCb(pin, data) ==
  IF Len(data) >= 9
  THEN << [pin |-> pin, state |-> IF data[9] # 0 THEN "High" ELSE "Low"] >>
  ELSE << >>

\* the calls of the user's callback made for the i-th event handed to the
\* registry
UserCalls(i) ==
  IF invoked[i].found THEN wrapperCb(RegisteredPin, invoked[i].data) ELSE << >>

NextGpioEvents ==
  \/ ServerSendGpioEvent
  \/ ServerSendResponse
  \/ Deliver
  \/ runFor
  \/ Return
  \/ RecvReturnCode
  \/ RecvEventCommand
  \/ RecvEventEd
  \/ RecvEventSize
  \/ RecvEventData
  \/ RecvEcho
  \/ RecvSize
  \/ RecvPayload

SpecGpioEvents == Init /\ [][NextGpioEvents]_vars

\* C31: for every event handed to a registered descriptor the user's callback
\* is called exactly once with (the registered pin, High for a non-zero state
\* byte, Low for zero) when the payload has the 8 bytes of a timestamp and a
\* state byte, and not at all when the payload is shorter than 9 bytes; an
\* event for a descriptor nobody registered calls nothing
C31_WrapperCallsOncePerEvent ==
  \A i \in 1..Len(invoked) :
    LET d == invoked[i].data IN
    IF invoked[i].ed \in callbacks_ /\ Len(d) >= 9
    THEN \/ d[9] = 0 /\ UserCalls(i) = << [pin |-> 0, state |-> "Low"] >>
         \/ d[9] > 0 /\ UserCalls(i) = << [pin |-> 0, state |-> "High"] >>
    ELSE UserCalls(i) = << >>

C31_Witness ==
  /\ pc = "returned"
  /\ ret.op = "runFor"
  /\ ret.err = 0
  /\ Len(invoked) = 2
  /\ invoked[1].data = Timestamp \o << 2 >>
  /\ invoked[2].data = Timestamp
  /\ UserCalls(1) = << [pin |-> 0, state |-> "High"] >>
  /\ UserCalls(2) = << >>

(***************************************************************************)
(* AMachine::runFor: the duration in microseconds, uint64_t arithmetic     *)
(***************************************************************************)
\* a uint64_t is kept as its 8 bytes, least significant first. Durations a
\* caller may pass: 100, 2^32, 2^48, 2^63 and 2^64 - 1
Durations ==
  { << 100, 0, 0, 0, 0, 0, 0, 0 >>,
    << 0, 0, 0, 0, 1, 0, 0, 0 >>,
    << 0, 0, 0, 0, 0, 0, 1, 0 >>,
    << 0, 0, 0, 0, 0, 0, 0, 128 >>,
    << 255, 255, 255, 255, 255, 255, 255, 255 >> }

\* TimeUnit: TU_MICROSECONDS, TU_MILLISECONDS, TU_SECONDS
TimeUnits == {1, 1000, 1000000}

\* the product of the number b (bytes, least significant first) and u, plus
\* carry, in full: three bytes more than b
RECURSIVE MulFull(_, _, _)
MulFull(b, u, carry) ==
  IF b = << >>
  THEN << carry % 256, (carry \div 256) % 256, (carry \div 65536) % 256 >>
  ELSE LET t == Head(b) * u + carry
       IN  << t % 256 >> \o MulFull(Tail(b), u, t \div 256)

\* duration * static_cast<uint64_t>(unit): the low 64 bits of the product
MulU64(duration, unit) == SubSeq(MulFull(duration, unit, 0), 1, 8)

\* runFor's payload: write_u64_le(microseconds)
runForPayload(duration, unit) == MulU64(duration, unit)

\* AMachine::runFor(duration, unit)
runForOf(duration, unit) == StartOpWith("runFor", runForPayload(duration, unit))

runForAny == \E duration \in Durations, unit \in TimeUnits : runForOf(duration, unit)

NextRunFor ==
  \/ runForAny
  \/ ServerSendResponse
  \/ Deliver
  \/ ServerClose
  \/ Return
  \/ RecvReturnCode
  \/ RecvEcho
  \/ RecvSize
  \/ RecvPayload

SpecRunFor == Init /\ [][NextRunFor]_vars

\* the payload of the request on the wire, after 'R', 'E', the command and the
\* 4-byte length
SentPayload(w) == SubSeq(w, 8, Len(w))

\* C32: the u64 runFor sends is duration * unit exactly, for every duration
\* and every unit: no bits of the product are lost
C32_PayloadIsExactProduct ==
  [][\A duration \in Durations, unit \in TimeUnits :
       (runForOf(duration, unit) /\ pc' = "rc") =>
         SentPayload(wire') \o << 0, 0, 0 >> = MulFull(duration, unit, 0)]_vars

SetStateReturned == pc = "returned" /\ ret.op = "setState" /\ ret.kind # "guard"

\* C33: setState calls the local callbacks only after a successful update:
\* each of them once when the server answered SUCCESS_WITHOUT_DATA, none when
\* the command failed (COMMAND_FAILED, INVALID_COMMAND, FATAL_ERROR, a
\* truncated reply or a socket error)
C33_SetStateFiresOnlyOnSuccess ==
  SetStateReturned =>
    /\ (ret.rc = SUCCESS_WITHOUT_DATA /\ ~ret.eof /\ ~ret.mismatch) => ret.fired = gpioCallbacks
    /\ (ret.rc \in {COMMAND_FAILED, INVALID_COMMAND, FATAL_ERROR} \/ ret.eof \/ ~ret.sent)
         => ret.fired = 0

\* the frames a step takes off the connection whole, in the order of the stream
PoppedFrames == SubSeq(unread, 1, Len(unread) - Len(unread'))

IsEvent(f) == f.code = ASYNC_EVENT

\* the events a step hands to the registry, in the order of the calls
Dispatched ==
  IF onSocketReadable THEN invoked' ELSE SubSeq(invoked', Len(invoked) + 1, Len(invoked'))

ResponseResult(f, cmd) ==
  LET rcmd == IF ReadsEcho(f.code) THEN f.cmd ELSE NoEcho
      p == IF ReadsData(f.code) THEN f.data ELSE << >>
  IN  IF CommandMismatch(rcmd, cmd)
      THEN [kind |-> "throw", payload |-> << >>, rc |-> f.code, mismatch |-> TRUE]
      ELSE [kind |-> "ok", payload |-> p, rc |-> f.code, mismatch |-> FALSE]

\* the exchange that has returned read events, one of them for a descriptor
\* without a callback, and then a complete response
DroppedEventThenResponse ==
  /\ pc = "returned"
  /\ seen # << >>
  /\ ~IsEvent(seen[Len(seen)])
  /\ \A i \in 1..(Len(seen) - 1) : IsEvent(seen[i])
  /\ \E i \in 1..(Len(seen) - 1) : seen[i].ed \notin callbacks_

\* C35: an event frame read during an exchange whose descriptor has no
\* callback is taken off the stream whole and calls no callback; the receive
\* loop goes on, and the exchange returns what it would return had the
\* response been alone in the stream
C35_UnregisteredEventIsDropped ==
  DroppedEventThenResponse =>
    /\ Len(invoked) = Len(seen) - 1
    /\ \A i \in 1..(Len(seen) - 1) :
         seen[i].ed \notin callbacks_ => (invoked[i].ed = seen[i].ed /\ ~invoked[i].found)
    /\ ret.kind = ResponseResult(seen[Len(seen)], ret.cmd).kind
    /\ ret.payload = ResponseResult(seen[Len(seen)], ret.cmd).payload
    /\ ret.rc = ResponseResult(seen[Len(seen)], ret.cmd).rc
    /\ ret.mismatch = ResponseResult(seen[Len(seen)], ret.cmd).mismatch
    /\ ~ret.eof

\* an event for descriptor 1, which has no callback, then a response with a
\* payload: the exchange has returned that payload
C35_Witness ==
  /\ DroppedEventThenResponse
  /\ Len(seen) = 2
  /\ seen[1].ed = 1
  /\ seen[1].data # << >>
  /\ ret.kind = "ok"
  /\ ret.payload # << >>
  /\ ret.err = 0

\* registerStateChangeCallback(pin, cb, handle) has returned an error because
\* its exchange failed
RegistrationFailed ==
  /\ pc = "returned"
  /\ ret.op = "registerStateChangeCallback"
  /\ ret.kind = "throw"

\* C36: a registration that returns an error because its exchange failed
\* leaves no callback behind: the descriptor the registry issued for it has no
\* callback, so that no later event can reach cb
C36_FailedRegistrationLeavesNothing ==
  RegistrationFailed => issued[Len(issued)] \notin callbacks_

(***************************************************************************)
(* RenodeWorker: the callbacks of a discovered GPIO port                   *)
(***************************************************************************)
\* the Gpio in m_gpios has not been registered with: it has issued no handle
FreshGpio == hasGpio /\ nextCbHandle = 1

\* doDiscoverPeripherals: `already`, a handle is kept for the path
already == m_gpioCallbackHandles # {}

\* doDiscoverPeripherals / doRefreshGpio: m_machine->getGpio(path, err); each
\* call that succeeds puts a new Gpio in m_gpios[path]
workerGetGpio ==
  /\ ~(FreshGpio /\ ~already)
  /\ getGpio

\* registerGpioCallbacks, called for the Gpio just obtained unless a handle is
\* kept for its path: gpio->registerStateChangeCallback(0, cb, handle)
registerGpioCallbacks ==
  /\ FreshGpio
  /\ ~already
  /\ registerStateChangeCallback

\* registerGpioCallbacks keeps the handle when the registration reports no
\* error; every other operation leaves the handles alone
workerReturn ==
  ReturnWith(IF ret.op = "registerStateChangeCallback" /\ ret.err = 0 /\ ret.id >= 0
             THEN m_gpioCallbackHandles \cup {ret.id}
             ELSE m_gpioCallbackHandles)

\* cleanupCallbacks: unregisterStateChangeCallback(handle) on m_gpios[path] for
\* every handle kept, then the handles are dropped; m_gpios.clear()
cleanupCallbacks ==
  LET m == IF hasGpio
           THEN { x \in handleToServerEd : x[1] \in m_gpioCallbackHandles }
           ELSE {}
  IN  /\ callbacks_' = callbacks_ \ { x[2] : x \in m }
      /\ handleToServerEd' = handleToServerEd \ m
      /\ gpioCallbacks' = gpioCallbacks - Cardinality(m)
      /\ m_gpioCallbackHandles' = {}
      /\ hasGpio' = FALSE

\* RenodeWorker::doDisconnect between two slots: cleanupCallbacks, the
\* peripherals and the machine are released, the client disconnects
workerDoDisconnect ==
  /\ ~(FreshGpio /\ ~already)
  /\ cleanupCallbacks
  /\ hasMachine' = FALSE
  /\ holders' = IF holders > 0 THEN holders - 1 ELSE 0
  /\ Disconnects

NextWorker ==
  \/ workerGetGpio
  \/ registerGpioCallbacks
  \/ workerReturn
  \/ workerDoDisconnect
  \/ ServerSendResponse
  \/ Deliver
  \/ RecvReturnCode
  \/ RecvEcho
  \/ RecvSize
  \/ RecvPayload

SpecWorker == InitWorker /\ [][NextWorker]_vars

\* C37: once doDisconnect is over, the registry holds none of the callbacks
\* the worker registered
C37_DisconnectLeavesNoCallback ==
  nDisconnect > 0 => \A i \in 1..Len(issued) : issued[i] \notin callbacks_

IsConnect(c) == c.name = "connect"

\* connect requests the worker has not answered yet: those waiting in its
\* queue and the one its doConnect slot is running
UnansweredConnects ==
  Len(SelectSeq(workerQ, IsConnect))
    + (IF wPc # "idle" /\ wCmd.name = "connect" THEN 1 ELSE 0)

\* C38: the controller posts no connect request while an earlier one has not
\* been answered with connected or connectionFailed
C38_OneConnectAtATime == UnansweredConnects <= 1

\* execute returns on a prompt; nothing was waiting on the socket when it was
\* called, so all it has read and all that is left was sent to answer it
ExecuteReturnsItsOwn ==
  /\ monPc = "read"
  /\ monRet.op = "execute"
  /\ monRet.unreadAtCall = 0
  /\ monPc' = "returned"
  /\ monRet'.prompt

\* C39: an execute call reads the whole response to its command: when the
\* server has sent a response that ends with the prompt, the call that returns
\* leaves none of it on the socket for a later call
C39_NothingLeftForLaterCall ==
  [][(ExecuteReturnsItsOwn /\ EndsWithPrompt(monRet'.raw \o monIn')) => monIn' = << >>]_vars

====
